---------------------------- MODULE Spec2Model ----------------------------
(***************************************************************************)
(* A model of the ext2 read/write implementation (wszxl516/ext2-fs).       *)
(*                                                                         *)
(* The device is modelled by the regions the code addresses:               *)
(*   dsb   the superblock record at bytes [1024, 2048)                     *)
(*   gdt   the group descriptor table (one record per group)               *)
(*   bm    the bitmap blocks, keyed by block number; a bitmap is the       *)
(*         sequence of its first per_group/8 bytes, every later byte of    *)
(*         the block being 0xFF (the padding mkfs writes)                  *)
(*   it    the inode table, keyed by inode number                          *)
(*   blk   every other block, keyed by block number, as its bytes:         *)
(*         a function from the offsets of the non-zero bytes to the byte   *)
(* super_block is the mounted filesystem's in-memory copy of the           *)
(* superblock, file is the one FsFile that may borrow the filesystem.      *)
(***************************************************************************)
EXTENDS Integers, Sequences, FiniteSets, TLC

VARIABLES dsb, gdt, bm, it, blk, super_block, file, ret, proc, nops, done

vars == <<dsb, gdt, bm, it, blk, super_block, file, ret, proc, nops, done>>

(***************************************************************************)
(* Bounds of the model.                                                    *)
(***************************************************************************)
\* mutating operations performed in one run
MaxOps == 4

(***************************************************************************)
(* Program constants.                                                      *)
(***************************************************************************)
EXT2_ROOT_INO == 2
EXT2_NDIR_BLOCKS == 12
EXT2_N_BLOCKS == 15
U8_MAX == 255
\* size_of::<Ext2DirEntryStruct>()
DIR_ENTRY_SIZE == 8
EXT2_GROUP_DESC_SIZE == 32
MODE_FIFO == 4096
MODE_CHAR_DEVICE == 8192
MODE_DIRECTORY == 16384
MODE_BLOCK_DEVICE == 24576
MODE_FILE == 32768
MODE_SYMLINK == 40960
MODE_SOCKET == 49152

U16 == 65536
\* u32 fields are held as plain integers: TLC's integers stop at
\* 2^31 - 1 and stop the run on overflow, and a u32 that would wrap below
\* zero marks the machine out of scope (see set_sb_free)

(***************************************************************************)
(* The image: the superblock's geometry fields (never written by the code) *)
(* and the block layout of the two groups.  Group g holds the blocks       *)
(* g*16+1 .. g*16+16: superblock (or its backup), descriptor table (or its *)
(* backup), block bitmap, inode bitmap, two inode table blocks, then data. *)
(***************************************************************************)
IMG == [s_inodes_count |-> 32, s_blocks_count |-> 32, s_log_block_size |-> 0,
        s_blocks_per_group |-> 16, s_inodes_per_group |-> 16,
        s_first_ino |-> 11, s_inode_size |-> 128, root_block |-> 7]

get_block_size == 1024 * (2 ^ IMG.s_log_block_size)

get_groups_count ==
    LET count == IMG.s_blocks_count \div IMG.s_blocks_per_group
    IN  IF IMG.s_blocks_count % IMG.s_blocks_per_group = 0 THEN count ELSE count + 1

Groups == 0 .. (get_groups_count - 1)
BlockNums == 0 .. (IMG.s_blocks_count - 1)
InodeNums == 1 .. IMG.s_inodes_count

\* Option<T>
None == << >>
Some(v) == << v >>
IsSome(o) == o # << >>

Min(S) == CHOOSE x \in S : \A y \in S : x <= y

(***************************************************************************)
(* Bytes and bits.                                                         *)
(***************************************************************************)
BitOf(byte, n) == (byte \div (2 ^ n)) % 2

\* c |= 1 << bit_n   /   c &= !(1 << bit_n)
OrBit(byte, n) == IF BitOf(byte, n) = 1 THEN byte ELSE byte + 2 ^ n
AndNotBit(byte, n) == IF BitOf(byte, n) = 1 THEN byte - 2 ^ n ELSE byte

\* byte i (0-based) of a bitmap block
BitmapByte(bitmap, i) == IF i < Len(bitmap) THEN bitmap[i + 1] ELSE U8_MAX

\* while chunk & 1 != 0 { chunk >>= 1; n += 1 }
RECURSIVE TrailingOnes(_)
TrailingOnes(chunk) ==
    IF chunk % 2 = 0 THEN 0 ELSE 1 + TrailingOnes(chunk \div 2)

(***************************************************************************)
(* The machine: the device regions, the in-memory superblock and the       *)
(* count of device operations of the running call.  Device operation       *)
(* number `fail' of a call fails (0: none does).                           *)
(***************************************************************************)
Tick(m) == [m EXCEPT !.io = @ + 1]
Fails(m) == m.fail # 0 /\ m.io + 1 = m.fail
Logged(m, tag) == [m EXCEPT !.wlog = Append(@, tag)]
\* m.rfail holds the number of the block whose read was the failed operation,
\* m.wfail what the failed operation was to write
WriteFailed(m, tag) == [Tick(m) EXCEPT !.wfail = << tag >>]

\* The(S) is the element of the singleton S.  A value that the text below
\* uses more than once is bound as  The({ e : x \in {value} }): x is bound
\* by the line that follows the expression e using it.
The(S) == CHOOSE x \in S : TRUE

RECURSIVE call(_, _)

ZeroDesc == [bg_block_bitmap |-> 0, bg_inode_bitmap |-> 0, bg_inode_table |-> 0,
             bg_free_blocks_count |-> 0, bg_free_inodes_count |-> 0]

\* Ext2BlockGroups::fetch_group_desc: one read_at of 32 bytes
fetch_group_desc(m, group_num) ==
    [m |-> Tick(m), ok |-> ~Fails(m),
     v |-> IF group_num \in Groups THEN m.gdt[group_num + 1] ELSE ZeroDesc]

get_group(m, group_num) == call("fetch_group_desc", << m, group_num >>)

\* Offset::new_offset(block_size, if block_size == 1024 { 2 } else { 1 }, ..)
GroupDescOffset(group_num) ==
    (IF get_block_size = 1024 THEN 2 ELSE 1) * get_block_size
        + group_num * EXT2_GROUP_DESC_SIZE

\* the device ends with the last block of the filesystem
DeviceSize == IMG.s_blocks_count * get_block_size

get_inode_group_num(inode_num) == (inode_num - 1) \div IMG.s_inodes_per_group

get_inode_group(m, inode_num) == call("fetch_group_desc", << m, get_inode_group_num(inode_num) >>)

\* read_at(Offset::new(block_size, bitmap_block_num), block_size) of a bitmap block
ReadBitmapBlock(m, block_num) ==
    [m |-> Tick(m), ok |-> ~Fails(m),
     v |-> IF block_num \in DOMAIN m.bm THEN m.bm[block_num] ELSE << >>]

\* write_at(Offset::new(block_size, bitmap_block_num), bitmap)
WriteBitmapBlock(m, block_num, bitmap) ==
    IF Fails(m) THEN [m |-> WriteFailed(m, "bitmap"), ok |-> FALSE]
    ELSE [m |-> Logged([Tick(m) EXCEPT !.bm[block_num] = bitmap],
                     << "bitmap", block_num >>),
          ok |-> TRUE]

get_block_bitmap(m, num) ==
    LET g == call("get_group", << m, num >>)
    IN  IF ~g.ok THEN [m |-> g.m, ok |-> FALSE, v |-> << >>]
        ELSE ReadBitmapBlock(g.m, g.v.bg_block_bitmap)

get_inode_bitmap(m, num) ==
    LET g == call("get_group", << m, num >>)
    IN  IF ~g.ok THEN [m |-> g.m, ok |-> FALSE, v |-> << >>]
        ELSE ReadBitmapBlock(g.m, g.v.bg_inode_bitmap)

set_block_bitmap(m, num, bitmap) ==
    LET g == call("get_group", << m, num >>)
    IN  IF ~g.ok THEN [m |-> g.m, ok |-> FALSE]
        ELSE WriteBitmapBlock(g.m, g.v.bg_block_bitmap, bitmap)

\* the group is the one the inode NUMBER given belongs to
set_inode_bitmap(m, inode_num, bitmap) ==
    LET g == call("get_inode_group", << m, inode_num >>)
    IN  IF ~g.ok THEN [m |-> g.m, ok |-> FALSE]
        ELSE WriteBitmapBlock(g.m, g.v.bg_inode_bitmap, bitmap)

bitmap_set_bit(bitmap, bnum, set) ==
    LET index == (bnum - 1) \div 8
        bit_n == (bnum - 1) % 8
        c     == bitmap[index + 1]
    IN  [bitmap EXCEPT ![index + 1] = IF set THEN OrBit(c, bit_n) ELSE AndNotBit(c, bit_n)]

\* the scan of alloc_block_group / alloc_inode_num_group: the index of the
\* first byte, from `first' on, that is not 0xFF
ScanBytes(bitmap, first) ==
    LET open == {i \in first .. (get_block_size - 1) : BitmapByte(bitmap, i) # U8_MAX}
    IN  IF open = {} THEN None ELSE Some(Min(open))

\* the one-based ordinal found by alloc_block_group's scan
ScanBlockBitmap(bitmap) ==
    LET s == ScanBytes(bitmap, 0)
    IN  IF ~IsSome(s) THEN None
        ELSE Some(8 * s[1] + TrailingOnes(BitmapByte(bitmap, s[1])) + 1)

\* alloc_inode_num_group's scan: inum starts at 8 and the bytes at index 1
ScanInodeBitmap(bitmap) ==
    LET s == ScanBytes(bitmap, 1)
    IN  IF ~IsSome(s) THEN None
        ELSE Some(8 + 8 * (s[1] - 1) + TrailingOnes(BitmapByte(bitmap, s[1])) + 1)

AddIfNonZero(count, delta) == IF count # 0 THEN count + delta ELSE count

set_group_free(m, group_num, inode_free, block_free) ==
    IF Fails(m) THEN [m |-> Tick(m), ok |-> FALSE]
    ELSE
      LET m1   == Tick(m)
          desc == IF group_num \in Groups THEN m.gdt[group_num + 1] ELSE ZeroDesc
          new  == [desc EXCEPT
                     !.bg_free_blocks_count =
                         AddIfNonZero(desc.bg_free_blocks_count, block_free) % U16,
                     !.bg_free_inodes_count =
                         AddIfNonZero(desc.bg_free_inodes_count, inode_free) % U16]
      IN  IF Fails(m1) THEN [m |-> WriteFailed(m1, "group_desc"), ok |-> FALSE]
          ELSE [m |-> Logged([Tick(m1) EXCEPT !.gdt[group_num + 1] = new],
                           << "group_desc", group_num >>),
                ok |-> TRUE]

\* Ext2SuperBlock::write: write_at(..).unwrap()
super_block_write(m) ==
    IF Fails(m) THEN [WriteFailed(m, "superblock") EXCEPT !.panic = TRUE]
    ELSE Logged([Tick(m) EXCEPT !.dsb = m.sb], << "superblock", 1 >>)

set_sb_free(m, inode_free, block_free) ==
    super_block_write(
      [m EXCEPT !.sb.s_free_blocks_count = @ + block_free,
                !.sb.s_free_inodes_count = @ + inode_free,
                !.oos = @ \/ m.sb.s_free_blocks_count + block_free < 0
                          \/ m.sb.s_free_inodes_count + inode_free < 0])

\* alloc_block_group / alloc_inode_num_group return [m, v], v an Option
alloc_block_group(m, group_num) ==
  The({ IF ~r1.ok THEN [m |-> r1.m, v |-> None] ELSE
    The({ IF ~IsSome(s) THEN [m |-> r1.m, v |-> None] ELSE
      The({ IF ~r2.ok THEN [m |-> r2.m, v |-> None] ELSE
        The({ IF ~r3.ok THEN [m |-> r3.m, v |-> None] ELSE
          The({ IF m4.panic THEN [m |-> m4, v |-> None]
                ELSE [m |-> m4, v |-> Some(s[1])]        \* Some(bnum)
          : m4 \in { call("set_sb_free", << r3.m, 0, -1 >>) } })
        : r3 \in { call("set_group_free", << r2.m, group_num, 0, -1 >>) } })
      : r2 \in { call("set_block_bitmap",
                      << r1.m, group_num, bitmap_set_bit(r1.v, s[1], TRUE) >>) } })
    : s \in { ScanBlockBitmap(r1.v) } })
  : r1 \in { call("get_block_bitmap", << m, group_num >>) } })

alloc_inode_num_group(m, group_num) ==
  The({ IF ~r1.ok THEN [m |-> r1.m, v |-> None] ELSE
    The({ IF ~IsSome(s) THEN [m |-> r1.m, v |-> None] ELSE
      The({ IF ~r2.ok THEN [m |-> r2.m, v |-> None] ELSE
        The({ IF ~r3.ok THEN [m |-> r3.m, v |-> None] ELSE
          The({ IF m4.panic THEN [m |-> m4, v |-> None]
                ELSE [m |-> m4, v |-> Some(s[1])]        \* Some(inum)
          : m4 \in { call("set_sb_free", << r3.m, -1, 0 >>) } })
        : r3 \in { call("set_group_free", << r2.m, group_num, -1, 0 >>) } })
      \* set_inode_bitmap(inum as u64, &bitmap)
      : r2 \in { call("set_inode_bitmap",
                      << r1.m, s[1], bitmap_set_bit(r1.v, s[1], TRUE) >>) } })
    : s \in { ScanInodeBitmap(r1.v) } })
  : r1 \in { call("get_inode_bitmap", << m, group_num >>) } })

\* for i in 0..groups_count: the first group that yields a slot; g is the
\* group the slot was drawn from
RECURSIVE alloc_block_from(_, _)
alloc_block_from(m, i) ==
    IF i >= get_groups_count THEN [m |-> m, v |-> None, g |-> i]
    ELSE LET r == call("alloc_block_group", << m, i >>)
         IN  IF r.m.panic \/ IsSome(r.v) THEN [m |-> r.m, v |-> r.v, g |-> i]
             ELSE alloc_block_from(r.m, i + 1)

alloc_block(m) == alloc_block_from(m, 0)

RECURSIVE alloc_inode_num_from(_, _)
alloc_inode_num_from(m, i) ==
    IF i >= get_groups_count THEN [m |-> m, v |-> None, g |-> i]
    ELSE LET r == call("alloc_inode_num_group", << m, i >>)
         IN  IF r.m.panic \/ IsSome(r.v) THEN [m |-> r.m, v |-> r.v, g |-> i]
             ELSE alloc_inode_num_from(r.m, i + 1)

alloc_inode_num(m) == alloc_inode_num_from(m, 0)


(***************************************************************************)
(* Byte blocks.  A block's content is a function from the offsets of its   *)
(* non-zero bytes to those bytes.                                          *)
(***************************************************************************)
ByteAt(content, o) == IF o \in DOMAIN content THEN content[o] ELSE 0

LE16(content, o) == ByteAt(content, o) + 256 * ByteAt(content, o + 1)

LE32(content, o) == ByteAt(content, o) + 256 * ByteAt(content, o + 1)
                  + 65536 * ByteAt(content, o + 2) + 16777216 * ByteAt(content, o + 3)

LE16Bytes(v) == << v % 256, (v \div 256) % 256 >>

LE32Bytes(v) == << v % 256, (v \div 256) % 256, (v \div 65536) % 256,
                   (v \div 16777216) % 256 >>

\* buffer[from .. from + len) as a sequence of bytes
Slice(content, from, len) == [i \in 1 .. len |-> ByteAt(content, from + i - 1)]

\* the content with `bytes' stored from offset `off' on (inside one block)
PutBytes(content, off, bytes) ==
    LET range == off .. (off + Len(bytes) - 1)
        keep  == (DOMAIN content) \ range
        set   == {o \in range : bytes[o - off + 1] # 0}
    IN  [o \in keep \cup set |-> IF o \in range THEN bytes[o - off + 1] ELSE content[o]]

\* the blocks that hold bytes of files and directories; the others are the
\* regions modelled as records
IsByteBlock(m, b) == b \in DOMAIN m.blk

\* Disk::read_at(Offset::new(block_size, block_num), block_size)
read_block(m, block_num) ==
    IF Fails(m) THEN [m |-> [Tick(m) EXCEPT !.rfail = << block_num >>],
                      st |-> "IOError", v |-> << >>]
    ELSE IF block_num \notin BlockNums
         THEN [m |-> Tick(m), st |-> "UnexpectedEof", v |-> << >>]
    ELSE IF ~IsByteBlock(m, block_num)
         THEN [m |-> [Tick(m) EXCEPT !.oos = TRUE], st |-> "IOError", v |-> << >>]
    ELSE [m |-> Tick(m), st |-> "ok", v |-> m.blk[block_num]]

\* the bytes land at device address block_num * block_size + offset and run
\* on from there, into the following block when they pass the block's end
RECURSIVE StoreBytes(_, _, _, _)
StoreBytes(m, block_num, offset, bytes) ==
    IF bytes = << >> THEN m
    ELSE IF offset >= get_block_size
         THEN StoreBytes(m, block_num + 1, offset - get_block_size, bytes)
    ELSE IF ~IsByteBlock(m, block_num) THEN [m EXCEPT !.oos = TRUE]
    ELSE LET room == get_block_size - offset
             n    == IF Len(bytes) <= room THEN Len(bytes) ELSE room
             m1   == [m EXCEPT !.blk[block_num] = PutBytes(@, offset, SubSeq(bytes, 1, n))]
         IN  StoreBytes(m1, block_num + 1, 0, SubSeq(bytes, n + 1, Len(bytes)))

\* Disk::write_at(Offset::BlockOffset{..}, buffer): Ext2Filesystem::write_block
write_block(m, block_num, offset, buffer) ==
    IF Fails(m) THEN [m |-> WriteFailed(m, "block"), st |-> "IOError", v |-> 0]
    ELSE [m |-> Logged(StoreBytes(Tick(m), block_num, offset, buffer),
                       <<"block", block_num>>),
          st |-> "ok", v |-> Len(buffer)]

(***************************************************************************)
(* Modes and inodes.                                                       *)
(***************************************************************************)
\* bitflags contains(): every bit of the flag is set in the mode
Contains(mode, flag) ==
    \A n \in 0 .. 15 : BitOf(flag, n) = 1 => BitOf(mode, n) = 1

is_dir(mode) == Contains(mode, MODE_DIRECTORY)
is_file(mode) == Contains(mode, MODE_FILE)
is_symlink(mode) == Contains(mode, MODE_SYMLINK)

\* u16 | u16
BitOr16(a, b) ==
    LET bit(n) == IF BitOf(a, n) = 1 \/ BitOf(b, n) = 1 THEN 2 ^ n ELSE 0
        RECURSIVE sum(_)
        sum(n) == IF n < 0 THEN 0 ELSE bit(n) + sum(n - 1)
    IN  sum(15)

ZeroIBlock == [i \in 1 .. EXT2_N_BLOCKS |-> 0]

\* Ext2InodeStruct::default(): mem::zeroed()
InodeStructDefault ==
    [i_mode |-> 0, i_size |-> 0, i_links_count |-> 0, i_blocks |-> 0,
     i_block |-> ZeroIBlock]

InodeStruct_new_dir(perm, first_block, size) ==
    [InodeStructDefault EXCEPT !.i_mode = BitOr16(MODE_DIRECTORY, perm),
                               !.i_links_count = 1,
                               !.i_block[1] = first_block,
                               !.i_blocks = 2,
                               !.i_size = size]

InodeStruct_new_file(perm, first_block, size) ==
    [InodeStructDefault EXCEPT !.i_mode = BitOr16(MODE_FILE, perm),
                               !.i_links_count = 1,
                               !.i_block[1] = first_block,
                               !.i_blocks = 2,
                               !.i_size = size]

\* Ext2InodeStruct::size (i_size_high is 0 in every inode of the model)
InodeStruct_size(ino) == ino.i_size

DataBlocksCount(size) ==
    IF size % get_block_size = 0 THEN size \div get_block_size
    ELSE size \div get_block_size + 1

NoInode == [inode_num |-> 0, ext2_inode |-> InodeStructDefault, size |-> 0,
            data_blocks_count |-> 0]

\* Ext2Inode::new: the group descriptor, then the inode record
Ext2Inode_new(m, inode_num) ==
    IF inode_num = 0
    THEN \* get_inode_group computes inode_num - 1 in u64.  A build that checks
         \* overflow panics there.  A build that wraps gets group 2^60 - 1 (16
         \* inodes per group), the descriptor offset 2 * 1024 + (2^60 - 1) * 32
         \* wraps to 2016, first_inode_num is 2^64 - 15, and the inode offset
         \* 0 * 1024 + (0 - first_inode_num) * 128 wraps to 1920: both reads
         \* fall into the unused, zero-filled end of the superblock's block.
         IF m.checked THEN [m |-> [m EXCEPT !.panic = TRUE], st |-> "abort", v |-> NoInode]
         ELSE IF Fails(m) THEN [m |-> Tick(m), st |-> "IOError", v |-> NoInode]
         ELSE IF Fails(Tick(m)) THEN [m |-> Tick(Tick(m)), st |-> "IOError", v |-> NoInode]
         ELSE [m |-> Tick(Tick(m)), st |-> "ok", v |-> NoInode]
    ELSE IF inode_num >= 1 /\ GroupDescOffset(get_inode_group_num(inode_num)) >= DeviceSize
    THEN \* the descriptor lies behind the end of the device: read_at comes short
         IF Fails(m) THEN [m |-> Tick(m), st |-> "IOError", v |-> NoInode]
         ELSE [m |-> Tick(m), st |-> "UnexpectedEof", v |-> NoInode]
    ELSE IF inode_num \notin InodeNums
    THEN [m |-> [m EXCEPT !.oos = TRUE], st |-> "IOError", v |-> NoInode]
    ELSE
      LET g == call("get_inode_group", << m, inode_num >>)
      IN  IF ~g.ok THEN [m |-> g.m, st |-> "IOError", v |-> NoInode]
          ELSE IF Fails(g.m) THEN [m |-> Tick(g.m), st |-> "IOError", v |-> NoInode]
          ELSE LET inode == g.m.it[inode_num]
                   size  == InodeStruct_size(inode)
               IN  [m |-> Tick(g.m), st |-> "ok",
                    v |-> [inode_num |-> inode_num, ext2_inode |-> inode,
                           size |-> size,
                           data_blocks_count |-> DataBlocksCount(size)]]

read_inode(m, inode_num) == call("Ext2Inode_new", << m, inode_num >>)

\* Ext2Inode::write: both device operations are unwrapped
Ext2Inode_write(m, inode) ==
    IF inode.inode_num \notin InodeNums THEN [m EXCEPT !.oos = TRUE]
    ELSE
      LET g == call("get_inode_group", << m, inode.inode_num >>)
      IN  IF ~g.ok THEN [g.m EXCEPT !.panic = TRUE]
          ELSE IF Fails(g.m) THEN [WriteFailed(g.m, "inode") EXCEPT !.panic = TRUE]
          ELSE Logged([Tick(g.m) EXCEPT !.it[inode.inode_num] = inode.ext2_inode],
                      <<"inode", inode.inode_num>>)

Ext2Inode_metadata(inode) ==
    [ino |-> inode.inode_num, mode |-> inode.ext2_inode.i_mode, size |-> inode.size,
     blocks |-> inode.ext2_inode.i_blocks, nlink |-> inode.ext2_inode.i_links_count]

(***************************************************************************)
(* The block-number and block-content iterators.                           *)
(***************************************************************************)
\* ReadBlockNum::new: block_size / size_of::<u32>()
blocks_per_block == get_block_size \div 4

\* ReadBlockNum::get_indirect_block: slot i of the block indirect_block_num
get_indirect_block(m, i, indirect_block_num) ==
    The({ IF r.st # "ok" THEN [m |-> r.m, st |-> r.st, v |-> 0]
          ELSE IF 4 * i + 4 > get_block_size
               THEN [m |-> [r.m EXCEPT !.panic = TRUE], st |-> "abort", v |-> 0]
          ELSE [m |-> r.m, st |-> "ok", v |-> LE32(r.v, 4 * i)]
    : r \in { call("read_block", << m, indirect_block_num >>) } })

\* a variant that looks up the slot of the first level in the second block
get_doubly_indirect_block_whole(m, i, doubly_indirect_block_num) ==
    The({ IF r.st # "ok" THEN r
          ELSE call("get_indirect_block", << r.m, i \div blocks_per_block, r.v >>)
    : r \in { call("get_indirect_block",
                    << m, i \div blocks_per_block, doubly_indirect_block_num >>) } })

\* ReadBlockNum::get_doubly_indirect_block
get_doubly_indirect_block(m, i, doubly_indirect_block_num) ==
    The({ IF r.st # "ok" THEN r
          ELSE call("get_indirect_block",
                    << r.m, i - (i \div blocks_per_block) * blocks_per_block, r.v >>)
    : r \in { call("get_indirect_block",
                    << m, i \div blocks_per_block, doubly_indirect_block_num >>) } })

\* ReadBlockNum::get_triply_indirect_block
get_triply_indirect_block(m, i, triply_indirect_block_num) ==
    The({ The({ IF r.st # "ok" THEN r
                ELSE call("get_doubly_indirect_block",
                          << r.m, i - k * blocks_per_block * blocks_per_block, r.v >>)
          : r \in { call("get_indirect_block", << m, k, triply_indirect_block_num >>) } })
    : k \in { (i \div blocks_per_block) \div blocks_per_block } })

\* ReadBlockNum::next for index i: [m, st, v]
ReadBlockNum_at(m, inode, i) ==
    IF i < EXT2_NDIR_BLOCKS
    THEN [m |-> m, st |-> "ok", v |-> inode.ext2_inode.i_block[i + 1]]
    ELSE IF i < EXT2_NDIR_BLOCKS + blocks_per_block
    THEN call("get_indirect_block",
              << m, i - EXT2_NDIR_BLOCKS, inode.ext2_inode.i_block[EXT2_NDIR_BLOCKS + 1] >>)
    ELSE IF i < EXT2_NDIR_BLOCKS + blocks_per_block + blocks_per_block * blocks_per_block
    THEN call("get_doubly_indirect_block",
              << m, i - (EXT2_NDIR_BLOCKS + blocks_per_block),
                 inode.ext2_inode.i_block[EXT2_NDIR_BLOCKS + 2] >>)
    ELSE call("get_triply_indirect_block",
              << m, i - (EXT2_NDIR_BLOCKS + blocks_per_block
                           + blocks_per_block * blocks_per_block),
                 inode.ext2_inode.i_block[EXT2_NDIR_BLOCKS + 3] >>)

\* Ext2Inode::get_blocks: collect::<Result<Vec<_>, _>>() over the iterator
RECURSIVE get_blocks_from(_, _, _, _)
get_blocks_from(m, inode, i, acc) ==
    IF i >= inode.data_blocks_count THEN [m |-> m, st |-> "ok", v |-> acc]
    ELSE LET r == ReadBlockNum_at(m, inode, i)
         IN  IF r.st # "ok" THEN [m |-> r.m, st |-> r.st, v |-> << >>]
             ELSE get_blocks_from(r.m, inode, i + 1, Append(acc, r.v))

get_blocks(m, inode) == get_blocks_from(m, inode, 0, << >>)

\* ReadBlock::next for index i: "end" when the iterator yields None (past
\* the last block, a failed block-number read, or block number 0)
ReadBlock_at(m, inode, i) ==
    IF i >= inode.data_blocks_count THEN [m |-> m, st |-> "end", v |-> << >>]
    ELSE LET r == ReadBlockNum_at(m, inode, i)
         IN  IF r.st # "ok" THEN [m |-> r.m, st |-> "end", v |-> << >>]
             ELSE IF r.v = 0 THEN [m |-> r.m, st |-> "end", v |-> << >>]
             ELSE call("read_block", << r.m, r.v >>)


(***************************************************************************)
(* Results.  A call that panics or never returns leaves the machine dead;  *)
(* a Result-returning operation then reports "abort".                      *)
(***************************************************************************)
Dead(m) == m.panic \/ m.hang
Panic(m) == [m EXCEPT !.panic = TRUE]
Hang(m) == [m EXCEPT !.hang = TRUE]
OutOfScope(m) == [m EXCEPT !.oos = TRUE]

\* align_up!(len, size) for size a power of two
\* a variant that leaves the length as it is
align_up_none(len, size) == len

align_up(len, size) == ((len + size - 1) \div size) * size

(***************************************************************************)
(* Directory engine.                                                       *)
(***************************************************************************)
\* to_slice!(&entry, Ext2DirEntryStruct): the 8 header bytes
DirEntryBytes(inode_num, rec_len, name_len, file_type) ==
    LE32Bytes(inode_num) \o LE16Bytes(rec_len) \o << name_len, file_type >>

DirEntryAt(buffer, offset) ==
    [inode_num |-> LE32(buffer, offset), rec_len |-> LE16(buffer, offset + 4),
     name_len |-> ByteAt(buffer, offset + 6), file_type |-> ByteAt(buffer, offset + 7)]

\* the record loop of Ext2Inode::read_dir over one block; entries maps a
\* name to the inode number of the record that names it last
RECURSIVE read_dir_block(_, _, _, _)
read_dir_block(m, buffer, offset, entries) ==
    IF offset >= get_block_size THEN [m |-> m, st |-> "ok", v |-> entries]
    ELSE IF offset + DIR_ENTRY_SIZE > get_block_size
         THEN [m |-> Panic(m), st |-> "abort", v |-> entries]
    ELSE
      The({ IF offset + DIR_ENTRY_SIZE + e.name_len > get_block_size
            THEN [m |-> Panic(m), st |-> "abort", v |-> entries]
            ELSE
              The({ IF r.st # "ok" THEN [m |-> r.m, st |-> r.st, v |-> entries]
                    ELSE IF e.rec_len = 0
                         THEN \* the same record is read again and again
                              IF r.m.fail > r.m.io
                              THEN [m |-> [r.m EXCEPT !.io = r.m.fail], st |-> "IOError",
                                    v |-> entries]
                              ELSE [m |-> Hang(r.m), st |-> "abort", v |-> entries]
                    ELSE read_dir_block(r.m, buffer, offset + e.rec_len,
                             [n \in (DOMAIN entries) \cup {name} |->
                                 IF n = name THEN e.inode_num ELSE entries[n]])
              : r \in { call("read_inode", << m, e.inode_num >>) },
                name \in { Slice(buffer, offset + DIR_ENTRY_SIZE, e.name_len) } })
      : e \in { DirEntryAt(buffer, offset) } })

RECURSIVE read_dir_from(_, _, _, _)
read_dir_from(m, inode, i, entries) ==
    The({ IF b.st = "end" THEN [m |-> b.m, st |-> "ok", v |-> entries]
          ELSE IF b.st # "ok" THEN [m |-> b.m, st |-> b.st, v |-> entries]
          ELSE The({ IF r.st # "ok" THEN r
                     ELSE read_dir_from(r.m, inode, i + 1, r.v)
               : r \in { read_dir_block(b.m, b.v, 0, entries) } })
    : b \in { call("ReadBlock_at", << m, inode, i >>) } })

EmptyEntries == [n \in {} |-> 0]

\* Ext2Inode::read_dir
Ext2Inode_read_dir(m, inode) ==
    IF ~is_dir(inode.ext2_inode.i_mode)
    THEN [m |-> m, st |-> "InvalidInput", v |-> EmptyEntries]
    ELSE read_dir_from(m, inode, 0, EmptyEntries)

\* a variant that takes every name for a name of the directory itself
get_child_lenient(m, inode, name) == [m |-> m, v |-> Some(inode)]

\* Ext2Inode::get_child: [m, v], v an Option of the child's Ext2Inode
get_child(m, inode, name) ==
    The({ IF r.st # "ok" THEN [m |-> r.m, v |-> None]
          ELSE IF name \notin DOMAIN r.v THEN [m |-> r.m, v |-> None]
          ELSE The({ IF c.st # "ok" THEN [m |-> c.m, v |-> None]
                     ELSE [m |-> c.m, v |-> Some(c.v)]
               : c \in { call("Ext2Inode_new", << r.m, r.v[name] >>) } })
    : r \in { call("Ext2Inode_read_dir", << m, inode >>) } })

\* the record loop of find_last_dir_entry over one block: "found" with the
\* offset of the first record that has slack or is unused, "ok" when the
\* block has none
RECURSIVE find_last_block(_, _, _)
find_last_block(m, buffer, offset) ==
    IF offset >= get_block_size THEN [m |-> m, st |-> "ok", v |-> 0]
    ELSE IF offset + DIR_ENTRY_SIZE > get_block_size
         THEN [m |-> Panic(m), st |-> "abort", v |-> 0]
    ELSE
      The({ \* entry_size < rec_len || inode_num == 0
            IF align_up(e.name_len + DIR_ENTRY_SIZE, 4) < e.rec_len \/ e.inode_num = 0
            THEN [m |-> m, st |-> "found", v |-> offset]
            ELSE IF e.rec_len = 0 THEN [m |-> Hang(m), st |-> "abort", v |-> 0]
            ELSE find_last_block(m, buffer, offset + e.rec_len)
      : e \in { DirEntryAt(buffer, offset) } })

\* the block loop: v is <<block index, offset>>
RECURSIVE find_last_from(_, _, _)
find_last_from(m, inode, i) ==
    The({ IF b.st = "end" THEN [m |-> b.m, st |-> "ok", v |-> << i, 0 >>]
          ELSE IF b.st # "ok" THEN [m |-> b.m, st |-> b.st, v |-> << i, 0 >>]
          ELSE The({ IF r.st = "found" THEN [m |-> r.m, st |-> "ok", v |-> << i, r.v >>]
                     ELSE IF r.st # "ok" THEN [m |-> r.m, st |-> r.st, v |-> << i, 0 >>]
                     ELSE find_last_from(r.m, inode, i + 1)
               : r \in { find_last_block(b.m, b.v, 0) } })
    : b \in { call("ReadBlock_at", << m, inode, i >>) } })

\* Ext2Inode::find_last_dir_entry: v is <<block number, offset>>, the block
\* number being i_block[block index]
find_last_dir_entry(m, inode) ==
    IF ~is_dir(inode.ext2_inode.i_mode)
    THEN [m |-> m, st |-> "InvalidInput", v |-> << 0, 0 >>]
    ELSE The({ IF r.st # "ok" THEN [m |-> r.m, st |-> r.st, v |-> << 0, 0 >>]
               ELSE IF r.v[1] >= EXT2_N_BLOCKS
                    THEN [m |-> Panic(r.m), st |-> "abort", v |-> << 0, 0 >>]
               ELSE [m |-> r.m, st |-> "ok",
                     v |-> << inode.ext2_inode.i_block[r.v[1] + 1], r.v[2] >>]
         : r \in { find_last_from(m, inode, 0) } })

(***************************************************************************)
(* Paths: sequences of bytes.                                              *)
(***************************************************************************)
SLASH == 47
DOT == 46

\* str::split("/")
RECURSIVE SplitFrom(_, _, _, _)
SplitFrom(path, i, cur, acc) ==
    IF i > Len(path) THEN Append(acc, cur)
    ELSE IF path[i] = SLASH THEN SplitFrom(path, i + 1, << >>, Append(acc, cur))
    ELSE SplitFrom(path, i + 1, Append(cur, path[i]), acc)

Split(path) == SplitFrom(path, 1, << >>, << >>)

\* [&str]::join("/")
RECURSIVE Join(_)
Join(parts) ==
    IF parts = << >> THEN << >>
    ELSE IF Len(parts) = 1 THEN parts[1]
    ELSE parts[1] \o << SLASH >> \o Join(Tail(parts))

base_dir(path) ==
    LET parts  == Split(path)
        joined == Join(SubSeq(parts, 1, Len(parts) - 1))
    IN  IF joined = << >> THEN << SLASH >> ELSE joined

base_file(path) == LET parts == Split(path) IN parts[Len(parts)]

starts_with_slash(path) == Len(path) > 0 /\ path[1] = SLASH

\* Ext2Inode::read_link: [m, st, v].  A target of at most I_BLOCKS_SIZE bytes
\* is the first `size' bytes of i_block, each entry in little-endian order; a
\* longer one is read from the blocks of the inode
Ext2Inode_read_link(m, inode) ==
    IF ~is_symlink(Ext2Inode_metadata(inode).mode)
    THEN [m |-> m, st |-> "InvalidData", v |-> << >>]
    ELSE IF inode.size > EXT2_N_BLOCKS * 4
    THEN [m |-> OutOfScope(m), st |-> "abort", v |-> << >>]
    ELSE The({ IF \E k \in DOMAIN target : target[k] >= 128
               THEN [m |-> OutOfScope(m), st |-> "abort", v |-> << >>]
               ELSE [m |-> m, st |-> "ok", v |-> target]
         : target \in { [k \in 1 .. inode.size |->
                           LE32Bytes(inode.ext2_inode.i_block[((k - 1) \div 4) + 1])
                                    [((k - 1) % 4) + 1]] } })

\* the loop of resolve_relative over the components from index i on.
\* `active' holds the expansions the call is nested in, each as the target,
\* the directory it starts from and the link flag: as resolving reads the
\* device only, an expansion that is nested in itself never returns, and
\* the recursion ends with the stack of the process
RECURSIVE resolve_walk(_, _, _, _, _, _, _)
resolve_walk(m, path_parts, i, inode, file_name, link, active) ==
    IF i > Len(path_parts)
    THEN [m |-> m, st |-> "ok", v |-> inode, name |-> file_name]
    ELSE IF path_parts[i] = << >>
    THEN resolve_walk(m, path_parts, i + 1, inode, path_parts[i], link, active)
    ELSE
      The({ IF Dead(c.m) THEN [m |-> c.m, st |-> "abort", v |-> inode, name |-> part]
            ELSE IF ~IsSome(c.v)
                 THEN [m |-> c.m, st |-> "NotFound", v |-> inode, name |-> part]
            ELSE IF is_symlink(Ext2Inode_metadata(c.v[1]).mode)
                    /\ (~link \/ i # Len(path_parts))
                 THEN The({
                   IF target.st # "ok"
                   THEN [m |-> target.m, st |-> target.st, v |-> inode, name |-> part]
                   ELSE IF << target.v, inode.inode_num, link >> \in active
                   THEN IF target.m.fail > target.m.io
                        THEN [m |-> OutOfScope(target.m), st |-> "abort", v |-> inode,
                              name |-> part]
                        ELSE [m |-> Panic(target.m), st |-> "abort", v |-> inode,
                              name |-> part]
                   ELSE The({
                     IF r.st # "ok" THEN [m |-> r.m, st |-> r.st, v |-> inode, name |-> part]
                     ELSE resolve_walk(r.m, path_parts, i + 1, r.v, r.name, link, active)
                     : r \in { call("resolve_relative",
                                    << target.m, target.v, inode, link,
                                       active \cup { << target.v, inode.inode_num, link >> }
                                    >>) } })
                   : target \in { call("Ext2Inode_read_link", << c.m, c.v[1] >>) } })
            ELSE resolve_walk(c.m, path_parts, i + 1, c.v[1], part, link, active)
      : c \in { call("get_child", << m, inode, path_parts[i] >>) },
        part \in { path_parts[i] } })

resolve_relative(m, path, inode, link, active) ==
    The({ IF r0.st # "ok" THEN [m |-> r0.m, st |-> r0.st, v |-> inode, name |-> << >>]
          ELSE resolve_walk(r0.m, Split(path), 1, r0.v, << >>, link, active)
    : r0 \in { IF starts_with_slash(path) THEN call("read_inode", << m, EXT2_ROOT_INO >>)
               ELSE [m |-> m, st |-> "ok", v |-> inode] } })

resolve(m, path) ==
    The({ IF root.st # "ok"
          THEN [m |-> root.m, st |-> root.st, v |-> NoInode, name |-> << >>]
          ELSE call("resolve_relative", << root.m, path, root.v, FALSE, {} >>)
    : root \in { call("read_inode", << m, EXT2_ROOT_INO >>) } })

\* a variant that finds no path: every path is taken for a new one
is_exist_never(m, path) == [m |-> m, v |-> FALSE]

\* Ext2Filesystem::is_exist: [m, v]
is_exist(m, path) ==
    LET r == call("resolve", << m, path >>) IN [m |-> r.m, v |-> (r.st = "ok")]


(***************************************************************************)
(* Filesystem facade.                                                      *)
(***************************************************************************)
NoFile == [open |-> FALSE]

\* FsFile::new
FsFile_new(inode, blocks, name) ==
    [open |-> TRUE, name |-> name, inode |-> inode, blocks |-> blocks, pos |-> 0]

NewEntryFailed(m, st) == [m |-> m, st |-> st, v |-> NoInode, name |-> << >>]

\* the three write_block calls that end new_dir_entry; old is the record at
\* `offset', cut back to entry_len bytes, and the new record follows it
new_dir_entry_write(m, path, is_a_file, block_num, offset, old, inode_new) ==
  The({
    The({ IF w1.st # "ok" THEN NewEntryFailed(w1.m, w1.st) ELSE
      The({ IF w2.st # "ok" THEN NewEntryFailed(w2.m, w2.st) ELSE
        The({ IF w3.st # "ok" THEN NewEntryFailed(w3.m, w3.st)
              ELSE [m |-> w3.m, st |-> "ok", v |-> inode_new, name |-> new_name]
        : w3 \in { call("write_block", << w2.m, block_num,
                        offset + entry_len + DIR_ENTRY_SIZE, new_name >>) } })
      : w2 \in { call("write_block", << w1.m, block_num, offset + entry_len,
                      DirEntryBytes(inode_new.inode_num,
                                    (get_block_size - offset - entry_len) % U16,
                                    Len(new_name) % 256,
                                    IF is_a_file THEN 1 ELSE 2) >>) } })
    : w1 \in { call("write_block", << m, block_num, offset,
                    DirEntryBytes(old.inode_num, entry_len, old.name_len,
                                  old.file_type) >>) } })
  : entry_len \in { align_up(DIR_ENTRY_SIZE + old.name_len, 4) },
    new_name \in { base_file(path) } })

\* the part of new_dir_entry after the existence test; [m, st, v, name]
new_dir_entry_build(m, path, perm, is_a_file) ==
  The({ IF p.st # "ok" THEN NewEntryFailed(p.m, p.st) ELSE
    The({ IF f.st # "ok" THEN NewEntryFailed(f.m, f.st) ELSE
      The({ IF b.st # "ok"                     \* read_block(block_num).unwrap()
            THEN NewEntryFailed(Panic(b.m), "abort") ELSE
        The({ IF Dead(ai.m) \/ ~IsSome(ai.v)   \* alloc_inode_num().unwrap()
              THEN NewEntryFailed(Panic(ai.m), "abort") ELSE
          The({ IF Dead(ab.m) \/ ~IsSome(ab.v) \* alloc_block().unwrap()
                THEN NewEntryFailed(Panic(ab.m), "abort") ELSE
            The({
              The({ IF Dead(m1) THEN NewEntryFailed(m1, "abort")
                    \* read_struct on a slice shorter than the record header
                    ELSE IF f.v[2] + DIR_ENTRY_SIZE > get_block_size
                    THEN NewEntryFailed(m1, "UnexpectedEof")
                    \* block_size - offset - rec_len below zero
                    ELSE IF get_block_size - f.v[2]
                            - align_up(DIR_ENTRY_SIZE + DirEntryAt(b.v, f.v[2]).name_len, 4) < 0
                    THEN NewEntryFailed(OutOfScope(Panic(m1)), "abort")
                    ELSE new_dir_entry_write(m1, path, is_a_file, f.v[1], f.v[2],
                                             DirEntryAt(b.v, f.v[2]), inode_new)
              : m1 \in { call("Ext2Inode_write", << ab.m, inode_new >>) } })
            : inode_new \in {
                [inode_num |-> ai.v[1],
                 ext2_inode |-> IF is_a_file
                                THEN InodeStruct_new_file(perm, ab.v[1], get_block_size)
                                ELSE InodeStruct_new_dir(perm, ab.v[1], get_block_size),
                 size |-> get_block_size,
                 data_blocks_count |-> 1] } })
          : ab \in { call("alloc_block", << ai.m >>) } })
        : ai \in { call("alloc_inode_num", << b.m >>) } })
      : b \in { call("read_block", << f.m, f.v[1] >>) } })
    \* (block_num, offset) = f.v
    : f \in { call("find_last_dir_entry", << p.m, p.v >>) } })
  : p \in { call("resolve", << m, base_dir(path) >>) } })

\* Ext2Filesystem::new_dir_entry
new_dir_entry(m, path, perm, is_a_file) ==
    The({ IF Dead(e.m) THEN NewEntryFailed(e.m, "abort")
          ELSE IF e.v THEN NewEntryFailed(e.m, "FileExists")
          ELSE new_dir_entry_build(e.m, path, perm, is_a_file)
    : e \in { call("is_exist", << m, path >>) } })

\* Ext2Filesystem::mk_default_dir: [m, st]; f.v[1] is block_num and
\* align_up(DIR_ENTRY_SIZE + 1, 4) is current_dir.rec_len
mk_default_dir(m, path) ==
  The({ IF p.st # "ok" THEN [m |-> p.m, st |-> p.st] ELSE
    The({ IF c.st # "ok" THEN [m |-> c.m, st |-> c.st] ELSE
      The({ IF f.st # "ok" THEN [m |-> f.m, st |-> f.st] ELSE
        The({ IF w1.st # "ok" THEN [m |-> w1.m, st |-> w1.st] ELSE
          The({ IF w2.st # "ok" THEN [m |-> w2.m, st |-> w2.st] ELSE
            The({ IF w3.st # "ok" THEN [m |-> w3.m, st |-> w3.st] ELSE
              The({ [m |-> w4.m, st |-> w4.st]
              : w4 \in { call("write_block", << w3.m, f.v[1],
                              align_up(DIR_ENTRY_SIZE + 1, 4) + DIR_ENTRY_SIZE,
                              << DOT, DOT >> >>) } })
            : w3 \in { call("write_block", << w2.m, f.v[1],
                            align_up(DIR_ENTRY_SIZE + 1, 4),
                            DirEntryBytes(p.v.inode_num,
                                (get_block_size - align_up(DIR_ENTRY_SIZE + 1, 4)) % U16,
                                2, 2) >>) } })
          : w2 \in { call("write_block", << w1.m, f.v[1], DIR_ENTRY_SIZE, << DOT >> >>) } })
        : w1 \in { call("write_block", << f.m, f.v[1], 0,
                        DirEntryBytes(c.v.inode_num, align_up(DIR_ENTRY_SIZE + 1, 4),
                                      1, 2) >>) } })
      : f \in { call("find_last_dir_entry", << c.m, c.v >>) } })
    : c \in { call("resolve", << p.m, path >>) } })
  : p \in { call("resolve", << m, base_dir(path) >>) } })

\* Ext2Filesystem::mk_dir: [m, st]
mk_dir(m, path, perm) ==
    LET r == call("new_dir_entry", << m, path, perm, FALSE >>)
    IN  IF r.st # "ok" THEN [m |-> r.m, st |-> r.st]
        ELSE call("mk_default_dir", << r.m, path >>)

\* Ext2Filesystem::new_file: [m, st, v], v the FsFile
new_file(m, path, perm) ==
    LET r == call("new_dir_entry", << m, path, perm, TRUE >>)
    IN  IF r.st # "ok" THEN [m |-> r.m, st |-> r.st, v |-> NoFile]
        ELSE [m |-> r.m, st |-> "ok",
              v |-> FsFile_new(r.v, << r.v.ext2_inode.i_block[1] >>, r.name)]

\* Ext2Filesystem::open
open(m, path) ==
    The({ IF r.st # "ok" THEN [m |-> r.m, st |-> r.st, v |-> NoFile]
          ELSE IF is_dir(r.v.ext2_inode.i_mode)
               THEN [m |-> r.m, st |-> "InvalidInput", v |-> NoFile]
          ELSE The({ IF b.st # "ok" THEN [m |-> b.m, st |-> b.st, v |-> NoFile]
                     ELSE [m |-> b.m, st |-> "ok", v |-> FsFile_new(r.v, b.v, r.name)]
               : b \in { call("get_blocks", << r.m, r.v >>) } })
    : r \in { call("resolve", << m, path >>) } })

\* Ext2Filesystem::read_dir: [m, st, v], v maps each name to its inode number
read_dir(m, path) ==
    LET r == call("resolve", << m, path >>)
    IN  IF r.st # "ok" THEN [m |-> r.m, st |-> r.st, v |-> EmptyEntries]
        ELSE call("Ext2Inode_read_dir", << r.m, r.v >>)

\* Ext2Filesystem::metadata: [m, st, v], v the Stat
\* a variant that follows a link named by the last component
metadata_follow(m, path) ==
    The({ [m |-> r.m, st |-> r.st, v |-> Ext2Inode_metadata(r.v)]
        : r \in { call("resolve", << m, path >>) } })

metadata(m, path) ==
    The({ IF root.st # "ok"
          THEN [m |-> root.m, st |-> root.st, v |-> Ext2Inode_metadata(NoInode)]
          ELSE The({ [m |-> r.m, st |-> r.st, v |-> Ext2Inode_metadata(r.v)]
               : r \in { call("resolve_relative", << root.m, path, root.v, TRUE, {} >>) } })
    : root \in { call("read_inode", << m, EXT2_ROOT_INO >>) } })

read_link(m, path) ==
    The({ IF root.st # "ok" THEN [m |-> root.m, st |-> root.st, v |-> << >>]
          ELSE The({ IF r.st # "ok" THEN [m |-> r.m, st |-> r.st, v |-> << >>]
                     ELSE call("Ext2Inode_read_link", << r.m, r.v >>)
               : r \in { call("resolve_relative", << root.m, path, root.v, TRUE, {} >>) } })
    : root \in { call("read_inode", << m, EXT2_ROOT_INO >>) } })

(***************************************************************************)
(* File handle.                                                            *)
(***************************************************************************)
FileResult(m, f, st, v) == [m |-> m, f |-> f, st |-> st, v |-> v]

\* the end of FsFile::write_block: self.inode = inode, then the write at
\* self.blocks[file_block_num]
FsFile_write_block_store(m, f, file_block_num, offset, buffer) ==
    IF Dead(m) THEN FileResult(m, f, "abort", 0)
    ELSE IF file_block_num >= Len(f.blocks)      \* self.blocks[file_block_num]
         THEN FileResult(Panic(m), f, "abort", 0)
    ELSE The({ FileResult(w.m, f, w.st, w.v)
         : w \in { call("write_block",
                        << m, f.blocks[file_block_num + 1], offset, buffer >>) } })

\* FsFile::write_block: [m, f, st, v]
FsFile_write_block(m, f, file_block_num, offset, buffer) ==
    IF file_block_num >= EXT2_NDIR_BLOCKS          \* assert!
    THEN FileResult(Panic(m), f, "abort", 0)
    ELSE IF f.inode.ext2_inode.i_block[file_block_num + 1] # 0
    THEN FsFile_write_block_store(m, f, file_block_num, offset, buffer)
    ELSE
      The({ IF Dead(a.m) \/ ~IsSome(a.v)       \* no block: nothing is recorded
            THEN call("FsFile_write_block_store",
                      << a.m, f, file_block_num, offset, buffer >>)
            ELSE
              The({ call("FsFile_write_block_store",
                         << call("Ext2Inode_write", << a.m, inode >>),
                            [f EXCEPT !.inode = inode, !.blocks = Append(@, a.v[1])],
                            file_block_num, offset, buffer >>)
              : inode \in { [f.inode EXCEPT
                               !.ext2_inode.i_block[file_block_num + 1] = a.v[1],
                               !.ext2_inode.i_blocks = @ + 1] } })
      : a \in { call("alloc_block", << m >>) } })

\* the loop of FsFile::write: buffer is what is left of buf
RECURSIVE FsFile_write_loop(_, _, _, _, _)
FsFile_write_loop(m, f, buffer, write_bytes, total) ==
    The({ IF w.st # "ok" THEN FileResult(w.m, w.f, w.st, 0)
          ELSE IF write_bytes + w.v = total
               THEN FileResult(w.m, [w.f EXCEPT !.pos = @ + w.v], "ok", write_bytes + w.v)
          ELSE FsFile_write_loop(w.m, [w.f EXCEPT !.pos = @ + w.v],
                                 SubSeq(buffer, get_block_size + 1, Len(buffer)),
                                 write_bytes + w.v, total)
    : w \in { call("FsFile_write_block",
                   << m, f, f.pos \div get_block_size, f.pos % get_block_size,
                      IF Len(buffer) <= get_block_size THEN buffer
                      ELSE SubSeq(buffer, 1, get_block_size) >>) } })

\* FsFile::write: [m, f, st, v]
FsFile_write(m, f, buf) ==
    The({ IF r.st # "ok" THEN r
          ELSE
            The({
              The({ IF Dead(m1) THEN FileResult(m1, [r.f EXCEPT !.inode = inode], "abort", 0)
                    ELSE FileResult(m1, [r.f EXCEPT !.inode = inode], "ok", r.v)
              : m1 \in { call("Ext2Inode_write", << r.m, inode >>) } })
            : inode \in { [r.f.inode EXCEPT !.ext2_inode.i_size = @ + r.v,
                                            !.size = @ + r.v] } })
    : r \in { FsFile_write_loop(m, f, buf, 0, Len(buf)) } })

\* FsFile::seek
FsFile_seek(f, offset) == [f EXCEPT !.pos = offset]

how_many_bytes(f, buffer_len) ==
    IF f.pos + buffer_len > f.inode.size THEN f.inode.size - f.pos ELSE buffer_len

ReadResult(m, f, st, v, buf) == [m |-> m, f |-> f, st |-> st, v |-> v, buf |-> buf]

\* FsFile::read with a buffer of buffer_len bytes: [m, f, st, v, buf], buf
\* the caller's buffer after the call
FsFile_read(m, f, buffer_len) ==
    IF f.pos >= f.inode.size
    THEN ReadResult(m, f, "ok", 0, [i \in 1 .. buffer_len |-> 0])
    ELSE IF f.pos \div get_block_size >= Len(f.blocks)   \* self.blocks[file_block_num]
    THEN ReadResult(Panic(m), f, "abort", 0, << >>)
    ELSE
      The({ IF b.st # "ok" THEN ReadResult(b.m, f, b.st, 0, << >>)
            \* zero_padding: the block followed by buffer_len - read_bytes
            \* zeros; block_pos + buffer_len beyond that is a slice out of range
            ELSE IF block_pos + buffer_len >
                      get_block_size
                      + (IF read_bytes < buffer_len THEN buffer_len - read_bytes ELSE 0)
                 THEN ReadResult(Panic(b.m), f, "abort", 0, << >>)
            ELSE ReadResult(b.m, [f EXCEPT !.pos = @ + read_bytes], "ok", read_bytes,
                            [i \in 1 .. buffer_len |->
                                IF block_pos + i - 1 < get_block_size
                                THEN ByteAt(b.v, block_pos + i - 1) ELSE 0])
      : b \in { call("read_block", << m, f.blocks[(f.pos \div get_block_size) + 1] >>) },
        read_bytes \in { how_many_bytes(f, buffer_len) },
        block_pos \in { f.pos % get_block_size } })

\* the size of read_to_end's buffer
READ_TO_END_TMP == 32

\* One turn of the loop of CoreRead::read_to_end for FsFile: [m, f, st, v,
\* buf] with st "more" when the loop goes on; every read is unwrapped.
read_to_end_turn(m, f, file_size, n, buf) ==
    The({ IF r.st # "ok" THEN ReadResult(Panic(r.m), r.f, "abort", n, buf)
          ELSE IF n + r.v >= file_size
               THEN ReadResult(r.m, r.f, "ok", n + r.v, buf \o SubSeq(r.buf, 1, r.v))
          ELSE IF r.v = 0    \* at the end of the file with n < file_size: for ever
               THEN ReadResult(Hang(r.m), r.f, "abort", n, buf)
          ELSE ReadResult(r.m, r.f, "more", n + r.v, buf \o SubSeq(r.buf, 1, r.v))
    : r \in { call("FsFile_read", << m, f, READ_TO_END_TMP >>) } })

\* at most `turns' turns of the loop, as two halves
RECURSIVE read_to_end_turns(_, _, _, _, _, _)
read_to_end_turns(m, f, file_size, n, buf, turns) ==
    IF turns <= 1 THEN read_to_end_turn(m, f, file_size, n, buf)
    ELSE The({ IF c.st # "more" THEN c
               ELSE read_to_end_turns(c.m, c.f, file_size, c.v, c.buf,
                                      turns - turns \div 2)
         : c \in { read_to_end_turns(m, f, file_size, n, buf, turns \div 2) } })

\* CoreRead::read_to_end.  A turn that is not the last one reads a whole
\* buffer, so the loop has ended or hangs after file_size / 32 + 2 turns.
read_to_end(m, f) ==
    The({ IF c.st = "more" THEN ReadResult(OutOfScope(c.m), c.f, "abort", c.v, c.buf)
          ELSE c
    : c \in { read_to_end_turns(m, f, f.inode.size, 0, << >>,
                                f.inode.size \div READ_TO_END_TMP + 2) } })


(***************************************************************************)
(* Mounting.                                                               *)
(***************************************************************************)
MAGIC == 61267      \* 0xef53

\* Ext2SuperBlock::new: the superblock is read from the second KiB of the
\* device and taken when its magic is MAGIC: [m, st, v]
Ext2SuperBlock_new(m) ==
    IF Fails(m) THEN [m |-> Tick(m), st |-> "IOError", v |-> m.dsb]
    ELSE IF m.dsb.s_magic = MAGIC THEN [m |-> Tick(m), st |-> "ok", v |-> m.dsb]
    ELSE [m |-> Tick(m), st |-> "InvalidData", v |-> m.dsb]

\* Ext2BlockGroups::new: get_block_size and get_groups_count of the
\* superblock; the count divides by s_blocks_per_group
Ext2BlockGroups_new(m, sb) ==
    IF sb.s_blocks_per_group = 0 THEN [m |-> Panic(m), st |-> "abort", v |-> 0]
    ELSE [m |-> m, st |-> "ok",
          v |-> [block_size  |-> 1024 * 2 ^ sb.s_log_block_size,
                 group_count |-> (sb.s_blocks_count \div sb.s_blocks_per_group)
                                 + (IF sb.s_blocks_count % sb.s_blocks_per_group = 0
                                    THEN 0 ELSE 1),
                 inodes_per_group |-> sb.s_inodes_per_group]]

\* Ext2Filesystem::mount: [m, st, v], m.sb the superblock of the filesystem
mount(m) ==
    The({ IF sb.st # "ok" THEN [m |-> sb.m, st |-> sb.st, v |-> 0]
          ELSE The({ [m |-> [g.m EXCEPT !.sb = sb.v], st |-> g.st, v |-> g.v]
               : g \in { call("Ext2BlockGroups_new", << sb.m, sb.v >>) } })
    : sb \in { call("Ext2SuperBlock_new", << m >>) } })

(***************************************************************************)
(* call(f, a) is the call of the program's function f with the arguments a. *)
(* Every call from one function of the program to another goes through it, *)
(* which keeps the expression TLC builds for an action as large as *)
(* the module and not as large as the tree of all calls.                   *)
(***************************************************************************)
call(f, a) ==
    CASE
         f = "read_inode" -> read_inode(a[1], a[2])
      [] f = "Ext2Inode_write" -> Ext2Inode_write(a[1], a[2])
      [] f = "read_block" -> read_block(a[1], a[2])
      [] f = "write_block" -> write_block(a[1], a[2], a[3], a[4])
      [] f = "alloc_block" -> alloc_block(a[1])
      [] f = "alloc_inode_num" -> alloc_inode_num(a[1])
      [] f = "alloc_block_group" -> alloc_block_group(a[1], a[2])
      [] f = "alloc_inode_num_group" -> alloc_inode_num_group(a[1], a[2])
      [] f = "set_group_free" -> set_group_free(a[1], a[2], a[3], a[4])
      [] f = "set_sb_free" -> set_sb_free(a[1], a[2], a[3])
      [] f = "get_blocks" -> get_blocks(a[1], a[2])
      [] f = "ReadBlock_at" -> ReadBlock_at(a[1], a[2], a[3])
      [] f = "Ext2Inode_read_dir" -> Ext2Inode_read_dir(a[1], a[2])
      [] f = "get_child" -> get_child(a[1], a[2], a[3])
      [] f = "find_last_dir_entry" -> find_last_dir_entry(a[1], a[2])
      [] f = "resolve" -> resolve(a[1], a[2])
      [] f = "resolve_relative" -> resolve_relative(a[1], a[2], a[3], a[4], a[5])
      [] f = "Ext2Inode_read_link" -> Ext2Inode_read_link(a[1], a[2])
      [] f = "read_link" -> read_link(a[1], a[2])
      [] f = "is_exist" -> is_exist(a[1], a[2])
      [] f = "new_dir_entry" -> new_dir_entry(a[1], a[2], a[3], a[4])
      [] f = "mk_default_dir" -> mk_default_dir(a[1], a[2])
      [] f = "mk_dir" -> mk_dir(a[1], a[2], a[3])
      [] f = "new_file" -> new_file(a[1], a[2], a[3])
      [] f = "open" -> open(a[1], a[2])
      [] f = "read_dir" -> read_dir(a[1], a[2])
      [] f = "metadata" -> metadata(a[1], a[2])
      [] f = "FsFile_write_block_store" -> FsFile_write_block_store(a[1], a[2], a[3], a[4], a[5])
      [] f = "FsFile_write_block" -> FsFile_write_block(a[1], a[2], a[3], a[4], a[5])
      [] f = "FsFile_write" -> FsFile_write(a[1], a[2], a[3])
      [] f = "FsFile_read" -> FsFile_read(a[1], a[2], a[3])
      [] f = "read_to_end" -> read_to_end(a[1], a[2])
      [] f = "get_block_bitmap" -> get_block_bitmap(a[1], a[2])
      [] f = "get_inode_bitmap" -> get_inode_bitmap(a[1], a[2])
      [] f = "set_block_bitmap" -> set_block_bitmap(a[1], a[2], a[3])
      [] f = "set_inode_bitmap" -> set_inode_bitmap(a[1], a[2], a[3])
      [] f = "get_inode_group" -> get_inode_group(a[1], a[2])
      [] f = "get_group" -> get_group(a[1], a[2])
      [] f = "fetch_group_desc" -> fetch_group_desc(a[1], a[2])
      [] f = "Ext2Inode_new" -> Ext2Inode_new(a[1], a[2])
      [] f = "Ext2SuperBlock_new" -> Ext2SuperBlock_new(a[1])
      [] f = "Ext2BlockGroups_new" -> Ext2BlockGroups_new(a[1], a[2])
      [] f = "mount" -> mount(a[1])
      [] f = "ReadBlockNum_at" -> ReadBlockNum_at(a[1], a[2], a[3])
      [] f = "get_indirect_block" -> get_indirect_block(a[1], a[2], a[3])
      [] f = "get_doubly_indirect_block" -> get_doubly_indirect_block(a[1], a[2], a[3])
      [] f = "get_triply_indirect_block" -> get_triply_indirect_block(a[1], a[2], a[3])

(***************************************************************************)
(* Images.  Image(k, j) is a filesystem as mkfs and an earlier mount left  *)
(* it: the root directory (inode 2, block 7) holds ".", ".." and k regular *)
(* files, inodes 11 .. 10+k, named by one letter each; the first of them   *)
(* owns the j data blocks 8 .. 7+j (all zero), the others are empty.       *)
(* Group 1 is unused.                                                      *)
(***************************************************************************)
ROOT_BLOCK == IMG.root_block
ROOT_MODE == MODE_DIRECTORY + 493      \* directory, 0o755
FILE_MODE == MODE_FILE + 420           \* regular file, 0o644

\* the bytes of a bitmap of `bits' bits whose first `used' bits are set
BitmapOfUsed(used, bits) ==
    [i \in 1 .. (bits \div 8) |->
        LET lo == 8 * (i - 1)
        IN  IF used >= lo + 8 THEN 255
            ELSE IF used <= lo THEN 0
            ELSE 2 ^ (used - lo) - 1]

\* the name of the i-th file of the image: "p", "q", ...
ImageFileName(i) == << 111 + i >>

\* the root directory block: n records of 12 bytes, the last one reaching
\* the end of the block
RECURSIVE ImageRootRecords(_, _, _)
ImageRootRecords(content, i, k) ==
    IF i > k THEN content
    ELSE LET offset  == 24 + 12 * (i - 1)
             rec_len == IF i = k THEN get_block_size - offset ELSE 12
             c1 == PutBytes(content, offset, DirEntryBytes(10 + i, rec_len, 1, 1))
             c2 == PutBytes(c1, offset + DIR_ENTRY_SIZE, ImageFileName(i))
         IN  ImageRootRecords(c2, i + 1, k)

ImageRootBlock(k) ==
    LET c0 == [o \in {} |-> 0]
        c1 == PutBytes(c0, 0, DirEntryBytes(EXT2_ROOT_INO, 12, 1, 2))
        c2 == PutBytes(c1, 8, << DOT >>)
        c3 == PutBytes(c2, 12, DirEntryBytes(EXT2_ROOT_INO,
                                  IF k = 0 THEN get_block_size - 12 ELSE 12, 2, 2))
        c4 == PutBytes(c3, 20, << DOT, DOT >>)
    IN  ImageRootRecords(c4, 1, k)

ImageInode(n, k, j) ==
    IF n = EXT2_ROOT_INO
    THEN [InodeStructDefault EXCEPT !.i_mode = ROOT_MODE, !.i_size = get_block_size,
                                    !.i_links_count = 2, !.i_blocks = 2,
                                    !.i_block[1] = ROOT_BLOCK]
    ELSE IF n = 11 /\ k >= 1
    THEN [InodeStructDefault EXCEPT !.i_mode = FILE_MODE, !.i_size = j * get_block_size,
                                    !.i_links_count = 1, !.i_blocks = 2 * j,
                                    !.i_block = [s \in 1 .. EXT2_N_BLOCKS |->
                                                    IF s <= j THEN ROOT_BLOCK + s ELSE 0]]
    ELSE IF n > 11 /\ n <= 10 + k
    THEN [InodeStructDefault EXCEPT !.i_mode = FILE_MODE, !.i_links_count = 1]
    ELSE InodeStructDefault

\* the blocks held as records: superblock, descriptor table, bitmaps and
\* inode tables of both groups
MetaBlocks == {1, 2, 3, 4, 5, 6, 19, 20, 21, 22}

Image(k, j) ==
    [sb  |-> [s_free_blocks_count |-> (9 - j) + 9, s_free_inodes_count |-> (6 - k) + 16],
     gdt |-> << [bg_block_bitmap |-> 3, bg_inode_bitmap |-> 4, bg_inode_table |-> 5,
                 bg_free_blocks_count |-> 9 - j, bg_free_inodes_count |-> 6 - k],
                [bg_block_bitmap |-> 19, bg_inode_bitmap |-> 20, bg_inode_table |-> 21,
                 bg_free_blocks_count |-> 9, bg_free_inodes_count |-> 16] >>,
     \* group 1 has 15 blocks (17 .. 31): the bit of block 32 is padding
     bm  |-> (3 :> BitmapOfUsed(7 + j, 16)) @@ (4 :> BitmapOfUsed(10 + k, 16))
             @@ (19 :> << 63, 128 >>) @@ (20 :> << 0, 0 >>),
     it  |-> [n \in InodeNums |-> ImageInode(n, k, j)],
     blk |-> [b \in BlockNums \ MetaBlocks |->
                IF b = ROOT_BLOCK THEN ImageRootBlock(k) ELSE [o \in {} |-> 0]]]

(***************************************************************************)
(* State, and the call frame of an operation.                              *)
(***************************************************************************)
NoRet == [op |-> "none"]

InitFrom(img) ==
    /\ dsb = img.sb
    /\ super_block = img.sb        \* Ext2Filesystem::mount reads the superblock
    /\ gdt = img.gdt
    /\ bm = img.bm
    /\ it = img.it
    /\ blk = img.blk
    /\ file = NoFile
    /\ ret = NoRet
    /\ proc = "running"
    /\ nops = 0
    /\ done = {}      \* the kinds of call that have returned Ok so far

\* the machine an operation starts on; device operation number `fail' fails;
\* `checked' tells whether the build panics on integer overflow
Mach(fail) ==
    [sb |-> super_block, dsb |-> dsb, gdt |-> gdt, bm |-> bm, it |-> it, blk |-> blk,
     io |-> 0, fail |-> fail, panic |-> FALSE, hang |-> FALSE, oos |-> FALSE,
     wlog |-> << >>, rfail |-> << >>, wfail |-> << >>, checked |-> TRUE]

\* the machine of the current state, for reading
Cur == Mach(0)

\* the call did not return: it panicked, it loops for ever, or it went where
\* the model does not follow the program (the state after it is final)
Lost(m) == Dead(m) \/ m.oos

Commit(m) ==
    /\ dsb' = m.dsb
    /\ super_block' = m.sb
    /\ gdt' = m.gdt
    /\ bm' = m.bm
    /\ it' = m.it
    /\ blk' = m.blk
    /\ proc' = IF m.oos THEN "unmodelled"
               ELSE IF m.panic THEN "panicked" ELSE IF m.hang THEN "hung" ELSE "running"
    /\ nops' = nops + 1

\* whether the injected device failure happened during the call
FaultHit(m) == m.fail # 0 /\ m.io >= m.fail

\* the call `op' has returned st on machine m
\* (of the calls that change the device)
Did(op, m, st) == done' = IF ~Lost(m) /\ st = "ok" THEN done \cup {op} ELSE done

CanCall == proc = "running" /\ nops < MaxOps

device == << dsb, gdt, bm, it, blk >>

(***************************************************************************)
(* Inputs.                                                                 *)
(***************************************************************************)
Zeros(n) == [i \in 1 .. n |-> 0]

\* "/a", "/b", "/a/b"
Paths == { << SLASH, 97 >>, << SLASH, 98 >>, << SLASH, 97, SLASH, 98 >> }

RootPath == << SLASH >>

\* the paths that are opened and whose metadata is asked for: "/a", "/a/b"
ReadPaths == { << SLASH, 97 >>, << SLASH, 97, SLASH, 98 >> }

\* the directories that are listed: "/", "/a"
DirPaths == { RootPath, << SLASH, 97 >> }

Perms == { 493 }

\* three bytes; one byte more than a block; three blocks
Buffers == { << 1, 2, 3 >>, Zeros(get_block_size) \o << 9 >>, Zeros(3 * get_block_size) }

\* a fresh filesystem, one whose group 0 has no free inode, and one whose
\* group 0 has no free block
SpecImages == { Image(0, 0), Image(6, 0), Image(1, 9) }

Result(op, path, m, st, v) ==
    [op |-> op, path |-> path, st |-> IF Lost(m) THEN "abort" ELSE st, v |-> v]

\* what the model remembers of a handle besides the FsFile: the path it
\* came from and, for a handle returned by new_file, the bytes written
Handle(f, path, fresh) ==
    IF f.open THEN f @@ [path |-> path, fresh |-> fresh, hist |-> << >>] ELSE f

(***************************************************************************)
(* Operations of the filesystem.  A file handle borrows the filesystem, so *)
(* the filesystem's own operations wait until the handle is dropped.       *)
(***************************************************************************)
Create(path, perm) ==
    /\ CanCall /\ ~file.open
    /\ \E r \in { call("new_file", << Cur, path, perm >>) } :
           /\ Commit(r.m)
           /\ file' = IF Lost(r.m) THEN NoFile ELSE Handle(r.v, path, TRUE)
           /\ Did("create", r.m, r.st)
           /\ ret' = Result("create", path, r.m, r.st, 0)

Mkdir(path, perm) ==
    /\ CanCall /\ ~file.open
    /\ \E r \in { call("mk_dir", << Cur, path, perm >>) } :
           /\ Commit(r.m)
           /\ file' = NoFile
           /\ Did("mkdir", r.m, r.st)
           /\ ret' = Result("mkdir", path, r.m, r.st, 0)

Open(path) ==
    /\ CanCall /\ ~file.open
    /\ \E r \in { call("open", << Cur, path >>) } :
           /\ Commit(r.m)
           /\ file' = IF Lost(r.m) THEN NoFile ELSE Handle(r.v, path, FALSE)
           /\ UNCHANGED done
           /\ ret' = Result("open", path, r.m, r.st, 0)

\* the handle is dropped
Close ==
    /\ proc = "running" /\ file.open
    /\ file' = NoFile
    /\ ret' = [op |-> "close", path |-> file.path, st |-> "ok", v |-> 0]
    /\ UNCHANGED << dsb, gdt, bm, it, blk, super_block, proc, nops, done >>

Write(buf) ==
    /\ CanCall /\ file.open
    /\ \E r \in { call("FsFile_write", << Cur, file, buf >>) } :
           /\ Commit(r.m)
           /\ file' = IF Lost(r.m) THEN NoFile
                      ELSE IF r.st = "ok" THEN [r.f EXCEPT !.hist = @ \o buf]
                      ELSE [r.f EXCEPT !.fresh = FALSE]
           /\ Did("write", r.m, r.st)
           /\ ret' = Result("write", file.path, r.m, r.st, r.v)

ReadToEnd ==
    /\ CanCall /\ file.open
    /\ \E r \in { call("read_to_end", << Cur, file >>) } :
           /\ Commit(r.m)
           /\ file' = IF Lost(r.m) THEN NoFile ELSE r.f
           /\ UNCHANGED done
           /\ ret' = Result("read_to_end", file.path, r.m, r.st, r.buf)

ReadDir(path) ==
    /\ CanCall /\ ~file.open
    /\ \E r \in { call("read_dir", << Cur, path >>) } :
           /\ Commit(r.m)
           /\ UNCHANGED done
           /\ ret' = Result("read_dir", path, r.m, r.st, r.v)
           /\ UNCHANGED file

Metadata(path) ==
    /\ CanCall /\ ~file.open
    /\ \E r \in { call("metadata", << Cur, path >>) } :
           /\ Commit(r.m)
           /\ UNCHANGED done
           /\ ret' = Result("metadata", path, r.m, r.st, r.v)
           /\ UNCHANGED file

Init == \E img \in SpecImages : InitFrom(img)

Next ==
    \/ \E path \in Paths, perm \in Perms : Create(path, perm)
    \/ \E path \in Paths, perm \in Perms : Mkdir(path, perm)
    \/ \E path \in ReadPaths : Open(path)
    \/ Close
    \/ \E buf \in Buffers : Write(buf)
    \/ ReadToEnd
    \/ \E path \in DirPaths : ReadDir(path)
    \/ \E path \in ReadPaths : Metadata(path)

Spec == Init /\ [][Next]_vars

(***************************************************************************)
(* The allocator on its own: its four public functions, each called with   *)
(* one device operation of the call failing (fault 0: none does).          *)
(***************************************************************************)
MaxFault == 7

\* group 0 full of inodes and blocks; one inode and one block left in it;
\* group 0 full and the inodes 25 .. 32 of group 1 in use, 17 .. 24 free
AllocImages ==
    { Image(6, 9), Image(5, 8),
      [Image(6, 9) EXCEPT !.bm[20] = << 0, 255 >>,
                          !.gdt[2].bg_free_inodes_count = 8,
                          !.sb.s_free_inodes_count = 8] }

AllocOps == { "alloc_block", "alloc_inode_num", "alloc_block_group",
              "alloc_inode_num_group" }

\* v: the number returned, the group it was drawn from, and whether the
\* failing device operation was reached
AllocResult(op, r, g) ==
    [op |-> op, path |-> << >>,
     st |-> IF Lost(r.m) THEN "abort" ELSE IF IsSome(r.v) THEN "ok" ELSE "none",
     v  |-> [val |-> IF IsSome(r.v) THEN r.v[1] ELSE 0, g |-> g, hit |-> FaultHit(r.m)]]

AllocBlock(fault) ==
    /\ CanCall
    /\ \E r \in { call("alloc_block", << Mach(fault) >>) } :
           /\ Commit(r.m)
           /\ ret' = AllocResult("alloc_block", r, r.g)
    /\ UNCHANGED << file, done >>

AllocInodeNum(fault) ==
    /\ CanCall
    /\ \E r \in { call("alloc_inode_num", << Mach(fault) >>) } :
           /\ Commit(r.m)
           /\ ret' = AllocResult("alloc_inode_num", r, r.g)
    /\ UNCHANGED << file, done >>

AllocBlockGroup(g, fault) ==
    /\ CanCall
    /\ \E r \in { call("alloc_block_group", << Mach(fault), g >>) } :
           /\ Commit(r.m)
           /\ ret' = AllocResult("alloc_block_group", r, g)
    /\ UNCHANGED << file, done >>

AllocInodeNumGroup(g, fault) ==
    /\ CanCall
    /\ \E r \in { call("alloc_inode_num_group", << Mach(fault), g >>) } :
           /\ Commit(r.m)
           /\ ret' = AllocResult("alloc_inode_num_group", r, g)
    /\ UNCHANGED << file, done >>

InitAlloc == \E img \in AllocImages : InitFrom(img)

NextAlloc ==
    \/ \E fault \in 0 .. MaxFault : AllocBlock(fault)
    \/ \E fault \in 0 .. MaxFault : AllocInodeNum(fault)
    \/ \E g \in Groups, fault \in 0 .. MaxFault : AllocBlockGroup(g, fault)
    \/ \E g \in Groups, fault \in 0 .. MaxFault : AllocInodeNumGroup(g, fault)

SpecAlloc == InitAlloc /\ [][NextAlloc]_vars

\* ---- paths through symbolic links

\* the image with the files "p" .. "t" in the root directory, where "q" is a
\* link to "/p", "r" and "s" are links to each other, and "t" is a link to "/"
LinkImage ==
    LET symlink(target) ==
          [InodeStructDefault EXCEPT
             !.i_mode = MODE_SYMLINK + 511, !.i_size = Len(target), !.i_links_count = 1,
             !.i_block = [k \in 1 .. EXT2_N_BLOCKS |->
                            LE32(PutBytes([o \in {} |-> 0], 0, target), 4 * (k - 1))]]
    IN  [Image(5, 0) EXCEPT !.it[12] = symlink(<< SLASH, 112 >>),
                            !.it[13] = symlink(<< SLASH, 115 >>),
                            !.it[14] = symlink(<< SLASH, 114 >>),
                            !.it[15] = symlink(<< SLASH >>)]

\* "/p", "/q", "/r", "/t/q", "/p/a", "/n/a"
LinkPaths ==
    { << SLASH, 112 >>, << SLASH, 113 >>, << SLASH, 114 >>,
      << SLASH, 116, SLASH, 113 >>, << SLASH, 112, SLASH, 97 >>,
      << SLASH, 110, SLASH, 97 >> }

\* "/", "/t", "/s", "/n"
LinkDirs == { << SLASH >>, << SLASH, 116 >>, << SLASH, 115 >>, << SLASH, 110 >> }

\* "/a", "/t/b", "/n/a", "/p/a"
LinkNewPaths ==
    { << SLASH, 97 >>, << SLASH, 116, SLASH, 98 >>, << SLASH, 110, SLASH, 97 >>,
      << SLASH, 112, SLASH, 97 >> }

ReadLink(path) ==
    /\ CanCall /\ ~file.open
    /\ \E r \in { call("read_link", << Cur, path >>) } :
           /\ Commit(r.m)
           /\ UNCHANGED done
           /\ ret' = Result("read_link", path, r.m, r.st, r.v)
           /\ UNCHANGED file

InitLinks == InitFrom(LinkImage)

NextLinks ==
    \/ \E path \in LinkNewPaths, perm \in Perms : Create(path, perm)
    \/ \E path \in LinkNewPaths, perm \in Perms : Mkdir(path, perm)
    \/ \E path \in LinkPaths : Open(path)
    \/ Close
    \/ \E path \in LinkDirs : ReadDir(path)
    \/ \E path \in LinkPaths : Metadata(path)
    \/ \E path \in LinkPaths : ReadLink(path)

SpecLinks == InitLinks /\ [][NextLinks]_vars

\* ---- reads and writes at a cursor that seek has moved

\* the image with the file "p" of 1035 bytes in the blocks 8 and 9
FileImage ==
    [Image(1, 2) EXCEPT !.it[11].i_size = get_block_size + 11,
                        !.blk[8] = (0 :> 7) @@ (1 :> 8) @@ (1001 :> 4) @@ (1023 :> 9),
                        !.blk[9] = (0 :> 5) @@ (10 :> 6)]

Seek(offset) ==
    /\ CanCall /\ file.open
    /\ file' = FsFile_seek(file, offset)
    /\ ret' = [op |-> "seek", path |-> file.path, st |-> "ok", v |-> offset]
    /\ nops' = nops + 1
    /\ UNCHANGED << dsb, gdt, bm, it, blk, super_block, proc, done >>

Read(buffer_len) ==
    /\ CanCall /\ file.open
    /\ \E r \in { call("FsFile_read", << Cur, file, buffer_len >>) } :
           /\ Commit(r.m)
           /\ file' = IF Lost(r.m) THEN NoFile ELSE r.f
           /\ UNCHANGED done
           /\ ret' = Result("read", file.path, r.m, r.st, [n |-> r.v, buf |-> r.buf])

InitFile == InitFrom(FileImage)

\* the cursor is put at the start, near the end of the first block, into
\* the block after a block never written, and behind the direct blocks
NextFile ==
    \/ Open(<< SLASH, 112 >>)
    \/ \E offset \in { 0, get_block_size - 24, 5 * get_block_size - 120,
                       EXT2_NDIR_BLOCKS * get_block_size } : Seek(offset)
    \/ \E buffer_len \in { 3, READ_TO_END_TMP } : Read(buffer_len)
    \/ Write(<< 1, 2, 3 >>)
    \/ Close

SpecFile == InitFile /\ [][NextFile]_vars

\* ---- mounting a device

\* a device whose superblock holds any magic, block size and group size; no
\* filesystem is built on it yet
InitMount ==
    \E img \in { Image(0, 0), Image(1, 2) },
       s_magic \in { MAGIC, MAGIC + 1, 0, 21487 },
       s_log_block_size \in { 0, 1, 2 },
       s_blocks_per_group \in { 0, IMG.s_blocks_per_group, 8 * get_block_size } :
        /\ dsb = img.sb @@ [s_magic |-> s_magic, s_log_block_size |-> s_log_block_size,
                            s_blocks_count |-> IMG.s_blocks_count,
                            s_blocks_per_group |-> s_blocks_per_group,
                            s_inodes_per_group |-> IMG.s_inodes_per_group]
        /\ super_block = [s_magic |-> 0]
        /\ gdt = img.gdt /\ bm = img.bm /\ it = img.it /\ blk = img.blk
        /\ file = NoFile /\ ret = NoRet /\ proc = "unmounted" /\ nops = 0 /\ done = {}

Mount(fault) ==
    /\ proc = "unmounted" /\ nops < MaxOps
    /\ \E r \in { call("mount", << Mach(fault) >>) } :
           /\ dsb' = r.m.dsb /\ gdt' = r.m.gdt /\ bm' = r.m.bm /\ it' = r.m.it
           /\ blk' = r.m.blk
           /\ super_block' = IF r.st = "ok" THEN r.m.sb ELSE super_block
           /\ proc' = IF r.m.panic THEN "panicked"
                      ELSE IF r.st = "ok" THEN "running" ELSE "unmounted"
           /\ ret' = [op |-> "mount", path |-> << >>,
                      st |-> IF Lost(r.m) THEN "abort" ELSE r.st,
                      v  |-> [hit |-> FaultHit(r.m)]]
    /\ nops' = nops + 1
    /\ UNCHANGED << file, done >>

NextMount == \E fault \in 0 .. 1 : Mount(fault)

SpecMount == InitMount /\ [][NextMount]_vars

\* ---- successive allocations on an image that holds the root directory only

MaxAllocs == 12

\* the allocations made so far, numbered per allocator from 0
Allocated(op) == { d \in done : d[1] = op }

FreshAllocBlock ==
    /\ proc = "running" /\ nops < MaxAllocs
    /\ \E r \in { call("alloc_block", << Cur >>) } :
           /\ Commit(r.m)
           /\ ret' = AllocResult("alloc_block", r, r.g)
           /\ done' = IF IsSome(r.v)
                      THEN done \cup { << "alloc_block",
                                         Cardinality(Allocated("alloc_block")), r.v[1] >> }
                      ELSE done
    /\ UNCHANGED file

FreshAllocInodeNum ==
    /\ proc = "running" /\ nops < MaxAllocs
    /\ \E r \in { call("alloc_inode_num", << Cur >>) } :
           /\ Commit(r.m)
           /\ ret' = AllocResult("alloc_inode_num", r, r.g)
           /\ done' = IF IsSome(r.v)
                      THEN done \cup { << "alloc_inode_num",
                                         Cardinality(Allocated("alloc_inode_num")),
                                         r.v[1] >> }
                      ELSE done
    /\ UNCHANGED file

InitFresh == InitFrom(Image(0, 0))

NextFresh == FreshAllocBlock \/ FreshAllocInodeNum

SpecFresh == InitFresh /\ [][NextFresh]_vars



(***************************************************************************)
(* Properties.                                                             *)

(***************************************************************************)
(* Operations on files of every kind: "/p" is a regular file, "/q" a fifo, *)
(* "/r" a socket, "/s" a block device, "/t" a character device.            *)
(***************************************************************************)
KindImage ==
    [Image(5, 0) EXCEPT !.it[12].i_mode = MODE_FIFO + 420,
                        !.it[13].i_mode = MODE_SOCKET + 420,
                        !.it[14].i_mode = MODE_BLOCK_DEVICE + 420,
                        !.it[15].i_mode = MODE_CHAR_DEVICE + 420]

\* "/", "/p", "/q", "/r", "/s", "/t"
KindPaths ==
    { << SLASH >>, << SLASH, 112 >>, << SLASH, 113 >>, << SLASH, 114 >>,
      << SLASH, 115 >>, << SLASH, 116 >> }

InitKinds == InitFrom(KindImage)

NextKinds ==
    \/ \E path \in KindPaths : Open(path)
    \/ Close
    \/ \E path \in KindPaths : ReadDir(path)
    \/ \E path \in KindPaths : Metadata(path)
    \/ \E path \in KindPaths : ReadLink(path)

SpecKinds == InitKinds /\ [][NextKinds]_vars


(***************************************************************************)
(* Operations on a device that fails once: device operation number `fault' *)
(* of one call fails (0: none does).  A behaviour is followed up to the    *)
(* call that the failure hit.  "/p" is a file of one block.                *)
(***************************************************************************)
MaxFaultOps == 2
MaxPathFault == 40

\* "/", "/p", "/a", "/b"
FaultPaths == { << SLASH >>, << SLASH, 112 >>, << SLASH, 97 >>, << SLASH, 98 >> }

FaultCalls == { "new_file", "mk_dir", "open", "read_dir", "metadata" }

\* what a call leaves to look at: whether the failure hit it, the block
\* whose read failed, what the failed write was of, and the writes made
Trace(m) == [hit |-> FaultHit(m), rfail |-> m.rfail, wfail |-> m.wfail, wlog |-> m.wlog]

PathCall(op, path, fault) ==
    /\ proc = "running" /\ nops < MaxFaultOps /\ done = {} /\ ~file.open
    /\ \E r \in { call(op, IF op \in { "new_file", "mk_dir" }
                           THEN << Mach(fault), path, 493 >>
                           ELSE << Mach(fault), path >>) } :
           /\ Commit(r.m)
           /\ file' = IF op \in { "new_file", "open" } /\ ~Lost(r.m)
                      THEN Handle(r.v, path, op = "new_file") ELSE NoFile
           /\ done' = IF FaultHit(r.m) THEN { fault } ELSE done
           /\ ret' = Result(op, path, r.m, r.st, Trace(r.m))

FaultyRead(buffer_len, fault) ==
    /\ proc = "running" /\ nops < MaxFaultOps /\ done = {} /\ file.open
    /\ \E r \in { call("FsFile_read", << Mach(fault), file, buffer_len >>) } :
           /\ Commit(r.m)
           /\ file' = IF Lost(r.m) THEN NoFile ELSE r.f
           /\ done' = IF FaultHit(r.m) THEN { fault } ELSE done
           /\ ret' = Result("read", file.path, r.m, r.st, Trace(r.m))

InitFault == InitFrom(Image(1, 1))

NextFault ==
    \/ \E op \in FaultCalls, path \in FaultPaths, fault \in 0 .. MaxPathFault :
           PathCall(op, path, fault)
    \/ \E fault \in 0 .. 2 : FaultyRead(3, fault)
    \/ Close

SpecFault == InitFault /\ [][NextFault]_vars


(***************************************************************************)
(* The block numbers of a large file: inode 11 has a direct block, an      *)
(* indirect block (9), a doubly indirect block (10) and a triply indirect  *)
(* block (12); blocks 11, 13 and 14 are pointer blocks below them.         *)
(***************************************************************************)
\* a pointer block: slots maps a slot to the block number it holds
PointerBlock(slots) ==
    [o \in UNION { { 4 * x, 4 * x + 1, 4 * x + 2, 4 * x + 3 } : x \in DOMAIN slots } |->
        LE32Bytes(slots[o \div 4])[(o % 4) + 1]]

IndirectImage ==
    [Image(1, 1) EXCEPT
       !.it[11].i_size = 1073741824,
       !.it[11].i_block = [k \in 1 .. EXT2_N_BLOCKS |->
                             CASE k = 1 -> 8 [] k = 13 -> 9 [] k = 14 -> 10
                               [] k = 15 -> 12 [] OTHER -> 0],
       !.blk[9]  = PointerBlock((0 :> 15) @@ (1 :> 16) @@ (255 :> 17)),
       !.blk[10] = PointerBlock((0 :> 11) @@ (1 :> 14) @@ (255 :> 11)),
       !.blk[11] = PointerBlock((0 :> 18) @@ (5 :> 23) @@ (255 :> 24)),
       !.blk[12] = PointerBlock((0 :> 13) @@ (1 :> 10) @@ (14 :> 13)),
       !.blk[13] = PointerBlock((0 :> 14) @@ (2 :> 11)),
       !.blk[14] = PointerBlock((3 :> 25) @@ (255 :> 26))]

\* logical indices at both ends of each level and inside it
BlockIndices ==
    { 0, 5, 11, 12, 13, 14, 267, 268, 273, 523, 527, 65803, 65804, 65807, 66321,
      131851, 983820 }

\* the item that the iterator ReadBlockNum of inode 11 yields at index i,
\* device operation number `fault' of the iterator failing
BlockNumber(i, fault) ==
    /\ CanCall /\ ~file.open
    /\ \E ino \in { call("read_inode", << Cur, 11 >>) } :
         /\ ino.st = "ok" /\ i < ino.v.data_blocks_count
         /\ \E r \in { call("ReadBlockNum_at",
                            << [ino.m EXCEPT !.io = 0, !.fail = fault], ino.v, i >>) } :
              /\ Commit(r.m)
              /\ UNCHANGED << file, done >>
              /\ ret' = Result("block_num", << SLASH, 112 >>, r.m, r.st,
                               [i |-> i, n |-> r.v, hit |-> FaultHit(r.m)])

InitBlockNum == InitFrom(IndirectImage)

NextBlockNum == \E i \in BlockIndices, fault \in 0 .. 3 : BlockNumber(i, fault)

SpecBlockNum == InitBlockNum /\ [][NextBlockNum]_vars


(***************************************************************************)
(* A directory with an unused record: the root directory holds the record  *)
(* of "p" and, after it, a record named "q" whose inode number is 0.  The  *)
(* program is built with overflow checks or without.                       *)
(***************************************************************************)
UnusedImage ==
    [Image(1, 0) EXCEPT
       !.blk[ROOT_BLOCK] = [o \in (DOMAIN ImageRootBlock(2)) \ { 36 } |-> ImageRootBlock(2)[o]]]

\* "/", "/p", "/q", "/a"
UnusedPaths == { << SLASH >>, << SLASH, 112 >>, << SLASH, 113 >>, << SLASH, 97 >> }

BuiltCall(op, path, checked) ==
    /\ CanCall /\ ~file.open
    /\ \E r \in { call(op, IF op \in { "new_file", "mk_dir" }
                           THEN << [Cur EXCEPT !.checked = checked], path, 493 >>
                           ELSE << [Cur EXCEPT !.checked = checked], path >>) } :
           /\ Commit(r.m)
           /\ file' = IF op \in { "new_file", "open" } /\ ~Lost(r.m)
                      THEN Handle(r.v, path, op = "new_file") ELSE NoFile
           /\ UNCHANGED done
           /\ ret' = Result(op, path, r.m, r.st,
                            IF op \in { "read_dir", "metadata" } THEN r.v ELSE 0)

InitUnused == InitFrom(UnusedImage)

NextUnused ==
    \/ \E op \in FaultCalls, path \in UnusedPaths, checked \in BOOLEAN :
           BuiltCall(op, path, checked)
    \/ Close

SpecUnused == InitUnused /\ [][NextUnused]_vars


(***************************************************************************)
(* A full directory: the block of the root directory is filled by records  *)
(* without slack: ".", ".." of 12 bytes, three records of 264 bytes with   *)
(* names of 255 bytes and one of 208 bytes with a name of 200 bytes, all   *)
(* naming the file of inode 11.                                            *)
(***************************************************************************)
\* a name of n bytes that starts with byte c
LongName(c, n) == [i \in 1 .. n |-> IF i = 1 THEN c ELSE 120]

FullImage ==
    LET put(c, offset, rec_len, name) ==
            PutBytes(PutBytes(c, offset, DirEntryBytes(11, rec_len, Len(name), 1)),
                     offset + DIR_ENTRY_SIZE, name)
        c1 == put(ImageRootBlock(0), 12, 12, << DOT, DOT >>)
        c2 == put(c1, 24, 264, LongName(112, 255))
        c3 == put(c2, 288, 264, LongName(113, 255))
        c4 == put(c3, 552, 264, LongName(114, 255))
        c5 == put(c4, 816, 208, LongName(115, 200))
    IN  [Image(1, 0) EXCEPT !.blk[ROOT_BLOCK] =
           PutBytes(c5, 12, DirEntryBytes(EXT2_ROOT_INO, 12, 2, 2))]

InitFull == InitFrom(FullImage)

SpecFull == InitFull /\ [][Next]_vars


(***************************************************************************)
(* Modes: the display of a mode and the tests of its file type, applied to *)
(* every mode made of one of the seven file types and nine permission bits.*)
(***************************************************************************)
TYPE_NAME == << "f", "c", "d", "b", "-", "l", "s" >>
PERM_NAME == << "-", "r", "w", "", "x" >>

\* Mode::file_type: from_bits_truncate(bits & 0xf000)
Mode_file_type(mode) == (mode \div 4096) * 4096

\* Mode::perm: bits & 0x1ff
Mode_perm(mode) == mode % 512

\* the three strings written for p = perm >> (i * 3):
\* PERM_NAME[p & 0b001], PERM_NAME[p & 0b010], PERM_NAME[p & 0b100]
PermTriple(p) ==
    << PERM_NAME[(p % 2) + 1],
       PERM_NAME[2 * ((p \div 2) % 2) + 1],
       PERM_NAME[4 * ((p \div 4) % 2) + 1] >>

\* Display for Mode: [st, v], v the strings written, in order
Mode_fmt(mode) ==
    IF Mode_file_type(mode) \div 8192 >= Len(TYPE_NAME)
    THEN [st |-> "abort", v |-> << >>]      \* index out of bounds
    ELSE [st |-> "ok",
          v |-> << TYPE_NAME[(Mode_file_type(mode) \div 8192) + 1], " " >>
                  \o PermTriple(Mode_perm(mode) \div 64)
                  \o PermTriple(Mode_perm(mode) \div 8)
                  \o PermTriple(Mode_perm(mode))]

FileTypes == { MODE_FIFO, MODE_CHAR_DEVICE, MODE_DIRECTORY, MODE_BLOCK_DEVICE,
               MODE_FILE, MODE_SYMLINK, MODE_SOCKET }

Modes == { t + perm : t \in FileTypes, perm \in 0 .. 511 }

\* the mode looked at is the mode of the file "/p" (inode 11)
Display ==
    /\ CanCall
    /\ \E r \in { Mode_fmt(it[11].i_mode) } :
           /\ ret' = [op |-> "display", path |-> << >>, st |-> r.st,
                      v |-> [mode |-> it[11].i_mode, text |-> r.v]]
           /\ proc' = IF r.st = "ok" THEN "running" ELSE "panicked"
    /\ nops' = nops + 1
    /\ UNCHANGED << dsb, gdt, bm, it, blk, super_block, file, done >>

TypeTests ==
    /\ CanCall
    /\ ret' = [op |-> "type_tests", path |-> << >>, st |-> "ok",
               v |-> [mode |-> it[11].i_mode, is_dir |-> is_dir(it[11].i_mode),
                      is_file |-> is_file(it[11].i_mode),
                      is_symlink |-> is_symlink(it[11].i_mode)]]
    /\ nops' = nops + 1
    /\ UNCHANGED << dsb, gdt, bm, it, blk, super_block, file, done, proc >>

InitMode == \E mode \in Modes : InitFrom([Image(1, 0) EXCEPT !.it[11].i_mode = mode])

NextMode == Display \/ TypeTests

SpecMode == InitMode /\ [][NextMode]_vars


(***************************************************************************)
(* Directories with slack.  In the first image the record of "p" in the    *)
(* root directory is followed by 12 bytes of slack (the record of a name   *)
(* that was removed) and by the record of "q", which reaches the end of    *)
(* the block.  In the second image the block is filled by records without  *)
(* slack except the last, whose name of 196 bytes leaves 4 bytes of slack; *)
(* block 8, which follows the directory block, is the data block of the    *)
(* file of inode 11.                                                       *)
(***************************************************************************)
SlackImage ==
    LET put(c, inode_num, offset, rec_len, name) ==
            PutBytes(PutBytes(c, offset, DirEntryBytes(inode_num, rec_len, Len(name), 1)),
                     offset + DIR_ENTRY_SIZE, name)
        c1 == put(ImageRootBlock(1), 11, 24, 24, << 112 >>)
        c2 == put(c1, 12, 48, get_block_size - 48, << 113 >>)
    IN  [Image(2, 0) EXCEPT !.blk[ROOT_BLOCK] = c2]

TightImage ==
    LET put(c, offset, rec_len, name) ==
            PutBytes(PutBytes(c, offset, DirEntryBytes(11, rec_len, Len(name), 1)),
                     offset + DIR_ENTRY_SIZE, name)
        c1 == put(ImageRootBlock(0), 12, 12, << DOT, DOT >>)
        c2 == put(c1, 24, 264, LongName(112, 255))
        c3 == put(c2, 288, 264, LongName(113, 255))
        c4 == put(c3, 552, 264, LongName(114, 255))
        c5 == put(c4, 816, 208, LongName(115, 196))
    IN  [Image(1, 1) EXCEPT !.blk[ROOT_BLOCK] =
           PutBytes(c5, 12, DirEntryBytes(EXT2_ROOT_INO, 12, 2, 2))]

InitSlack == InitFrom(SlackImage)

SpecSlack == InitSlack /\ [][Next]_vars

InitTight == InitFrom(TightImage)

SpecTight == InitTight /\ [][Next]_vars


(***************************************************************************)
(* Exhausted filesystems.  In the first image every inode of both groups   *)
(* is in use; in the second every block of both groups is in use.  Both    *)
(* hold the file "p", whose block map names blocks in its first slots and  *)
(* none in the slots after them.                                           *)
(***************************************************************************)
NoInodeImage ==
    [Image(6, 1) EXCEPT
       !.bm[20] = << 255, 255 >>,
       !.gdt[2].bg_free_inodes_count = 0,
       !.sb.s_free_inodes_count = 0,
       !.it = [n \in InodeNums |->
                 IF n > 16 THEN [InodeStructDefault EXCEPT !.i_mode = FILE_MODE,
                                                           !.i_links_count = 1]
                 ELSE ImageInode(n, 6, 1)]]

NoBlockImage ==
    [Image(1, 9) EXCEPT
       !.bm[19] = << 255, 255 >>,
       !.gdt[2].bg_free_blocks_count = 0,
       !.sb.s_free_blocks_count = 0]

InitExhausted == \E img \in { NoInodeImage, NoBlockImage } : InitFrom(img)

\* create and mkdir of "/a"; writes to "p" at the start of the file and at
\* the start of the first slot of the block map that names no block
NextExhausted ==
    \/ Create(<< SLASH, 97 >>, 493)
    \/ Mkdir(<< SLASH, 97 >>, 493)
    \/ Open(<< SLASH, 112 >>)
    \/ \E offset \in { 0, 100, get_block_size, 9 * get_block_size } : Seek(offset)
    \/ \E buffer_len \in { 3, READ_TO_END_TMP } : Read(buffer_len)
    \/ Write(<< 1, 2, 3 >>)
    \/ Close

SpecExhausted == InitExhausted /\ [][NextExhausted]_vars


(***************************************************************************)
(* A file whose blocks do not follow one another: "p" (inode 11) has 2048  *)
(* bytes in the blocks 8 and 10, and block 9 between them is the data      *)
(* block of "q" (inode 12).                                                *)
(***************************************************************************)
ScatterImage ==
    [Image(2, 3) EXCEPT
       !.it[11].i_size = 2 * get_block_size,
       !.it[11].i_blocks = 4,
       !.it[11].i_block = [s \in 1 .. EXT2_N_BLOCKS |->
                             IF s = 1 THEN 8 ELSE IF s = 2 THEN 10 ELSE 0],
       !.it[12].i_size = get_block_size,
       !.it[12].i_blocks = 2,
       !.it[12].i_block[1] = 9,
       !.blk[8] = (0 :> 7) @@ (1023 :> 9),
       !.blk[9] = (0 :> 5) @@ (10 :> 6),
       !.blk[10] = (0 :> 4)]

InitScatter == InitFrom(ScatterImage)

\* the cursor is put at the start of the file, inside its first block, two
\* bytes before the end of its first block, at the start of its second, and
\* at the end of the file
NextScatter ==
    \/ Open(<< SLASH, 112 >>)
    \/ \E offset \in { 0, 100, get_block_size - 2, get_block_size,
                       2 * get_block_size } : Seek(offset)
    \/ \E buffer_len \in { 3, READ_TO_END_TMP } : Read(buffer_len)
    \/ Write(<< 1, 2, 3 >>)
    \/ ReadToEnd
    \/ Close

SpecScatter == InitScatter /\ [][NextScatter]_vars


(***************************************************************************)
(* Directory blocks that are not well formed.  The root directory block is *)
(* the full block of FullImage with another header in its last record, at  *)
(* offset 816: rec_len 0; rec_len 204, which ends 4 bytes before the end   *)
(* of the block; name_len 255, which runs past the end of the block; and   *)
(* rec_len 2000, which overshoots the end of the block.  In a fifth image  *)
(* the directory is sound and the free block 8 holds what an earlier owner *)
(* left in it: a record with inode number 5 and rec_len 0.                 *)
(***************************************************************************)
CorruptImage(rec_len, name_len) ==
    [FullImage EXCEPT !.blk[ROOT_BLOCK] =
        PutBytes(@, 816, DirEntryBytes(11, rec_len, name_len, 1))]

StaleImage == [Image(1, 0) EXCEPT !.blk[8] = (0 :> 5) @@ (6 :> 1) @@ (7 :> 1) @@ (8 :> 97)]

CorruptImages ==
    { CorruptImage(0, 200), CorruptImage(204, 196), CorruptImage(208, 255),
      CorruptImage(2000, 200), StaleImage }

\* Ext2Inode::find_last_dir_entry on the inode of the root directory
FindLast(checked) ==
    /\ CanCall /\ ~file.open
    /\ \E root \in { call("read_inode", << [Cur EXCEPT !.checked = checked],
                                           EXT2_ROOT_INO >>) } :
         \E r \in { call("find_last_dir_entry", << root.m, root.v >>) } :
           /\ Commit(r.m)
           /\ UNCHANGED << file, done >>
           /\ ret' = Result("find_last_dir_entry", RootPath, r.m, r.st, r.v)

InitCorrupt == \E img \in CorruptImages : InitFrom(img)

\* at most MaxFaultOps calls, with the paths "/" and "/a"
NextCorrupt ==
    \/ \E op \in FaultCalls, path \in { RootPath, << SLASH, 97 >> }, checked \in BOOLEAN :
           nops < MaxFaultOps /\ BuiltCall(op, path, checked)
    \/ \E checked \in BOOLEAN : nops < MaxFaultOps /\ FindLast(checked)
    \/ Close

SpecCorrupt == InitCorrupt /\ [][NextCorrupt]_vars

(***************************************************************************)
\* no call has left the part of the program that the model follows
InScope == proc # "unmodelled"

PopCount8(byte) == BitOf(byte, 0) + BitOf(byte, 1) + BitOf(byte, 2) + BitOf(byte, 3)
                 + BitOf(byte, 4) + BitOf(byte, 5) + BitOf(byte, 6) + BitOf(byte, 7)

RECURSIVE SumSeq(_)
SumSeq(s) == IF s = << >> THEN 0 ELSE Head(s) + SumSeq(Tail(s))

\* the number of bits set among the first `bits' bits of a bitmap
PopCount(bitmap, bits) ==
    SumSeq([i \in 1 .. (bits \div 8) |-> PopCount8(BitmapByte(bitmap, i - 1))])

BlockBitmapAgrees(g) ==
    PopCount(bm[gdt[g + 1].bg_block_bitmap], IMG.s_blocks_per_group)
        = IMG.s_blocks_per_group - gdt[g + 1].bg_free_blocks_count

InodeBitmapAgrees(g) ==
    PopCount(bm[gdt[g + 1].bg_inode_bitmap], IMG.s_inodes_per_group)
        = IMG.s_inodes_per_group - gdt[g + 1].bg_free_inodes_count

\* C1: after any sequence of create, mkdir and write calls, in every group
\* the number of bits set in the block bitmap (in the inode bitmap) is the
\* group size minus the free counter of the group's descriptor.
C1_BitmapMatchesCounter ==
    proc = "running" => \A g \in Groups : BlockBitmapAgrees(g) /\ InodeBitmapAgrees(g)

\* C2: after any sequence of create, mkdir and write calls, the free-inode
\* and free-block counters of the superblock on the device are the sums of
\* the descriptors' counters.
C2_SuperblockIsSum ==
    proc = "running" =>
        /\ dsb.s_free_inodes_count
             = SumSeq([i \in 1 .. Len(gdt) |-> gdt[i].bg_free_inodes_count])
        /\ dsb.s_free_blocks_count
             = SumSeq([i \in 1 .. Len(gdt) |-> gdt[i].bg_free_blocks_count])

\* bit n - 1 of the bitmap in block b was clear before the step and is set
\* after it
BitSetByStep(b, n) ==
    /\ BitOf(BitmapByte(bm[b], (n - 1) \div 8), (n - 1) % 8) = 0
    /\ BitOf(BitmapByte(bm'[b], (n - 1) \div 8), (n - 1) % 8) = 1

BitmapBlockOf(op, g) ==
    IF op \in { "alloc_block", "alloc_block_group" }
    THEN gdt[g + 1].bg_block_bitmap ELSE gdt[g + 1].bg_inode_bitmap

AllocSucceeds == nops' = nops + 1 /\ ret'.op \in AllocOps /\ ret'.st = "ok"

\* C3: an allocation that succeeds from group g returns g * per_group + n,
\* n the one-based ordinal of the bit it set in the bitmap of group g; for
\* blocks and for inodes, in every group.
C3_GlobalNumber ==
    [][ AllocSucceeds =>
          \E n \in 1 .. IMG.s_blocks_per_group :
              /\ BitSetByStep(BitmapBlockOf(ret'.op, ret'.v.g), n)
              /\ ret'.v.val = ret'.v.g * IMG.s_blocks_per_group + n ]_vars

\* the path resolves in the current state
PathExists(path) ==
    The({ r.st = "ok" /\ ~Lost(r.m) : r \in { call("resolve", << Cur, path >>) } })

CreateOrMkdirOfExisting ==
    /\ nops' = nops + 1
    /\ ret'.op \in { "create", "mkdir" }
    /\ PathExists(ret'.path)

\* C4: create and mkdir of a path that exists return FileExists and leave
\* the whole device as it was: bitmaps, descriptors, superblock, inode table
\* and directory blocks; at every such call, however often it is repeated.
C4_ExistingPathUntouched ==
    [][ CreateOrMkdirOfExisting =>
          /\ ret'.st = "FileExists"
          /\ device' = device
          /\ super_block' = super_block ]_vars

\* a second create or mkdir of an existing path has just failed
C4_Witness ==
    /\ ret.op \in { "create", "mkdir" }
    /\ ret.st = "FileExists"
    /\ PathExists(ret.path)
    /\ nops >= 3

\* a mkdir has just returned Ok
MkdirDone == proc = "running" /\ ret.op = "mkdir" /\ ret.st = "ok"

\* the two records at the head of the first block of directory inode c
DotRecords(c) ==
    << DirEntryAt(blk[it[c].i_block[1]], 0),
       DirEntryAt(blk[it[c].i_block[1]], 12) >>

\* C5: after a successful mkdir(p), read_dir(dirname(p)) lists basename(p)
\* as a directory and read_dir(p) returns exactly "." and "..": "." with the
\* new directory's inode, rec_len 12 and file_type 2, ".." with the parent's
\* inode, rec_len block_size - 12 and file_type 2.
C5_MkdirListing ==
    MkdirDone =>
      The({ /\ par.st = "ok" /\ pd.st = "ok" /\ cd.st = "ok"
            /\ name \in DOMAIN pd.v
            /\ pd.v[name] \in InodeNums
            /\ is_dir(it[pd.v[name]].i_mode)
            /\ DOMAIN cd.v = { << DOT >>, << DOT, DOT >> }
            /\ cd.v[<< DOT >>] = pd.v[name]
            /\ cd.v[<< DOT, DOT >>] = par.v.inode_num
            /\ DotRecords(pd.v[name])
                 = << [inode_num |-> pd.v[name], rec_len |-> 12,
                       name_len |-> 1, file_type |-> 2],
                      [inode_num |-> par.v.inode_num, rec_len |-> get_block_size - 12,
                       name_len |-> 2, file_type |-> 2] >>
      : par  \in { call("resolve", << Cur, base_dir(ret.path) >>) },
        pd   \in { call("read_dir", << Cur, base_dir(ret.path) >>) },
        cd   \in { call("read_dir", << Cur, ret.path >>) },
        name \in { base_file(ret.path) } })

\* the handle returned by create is open, and every write through it so far
\* has returned Ok
FreshHandle ==
    /\ proc = "running"
    /\ file.open /\ file.fresh
    /\ ret.op \in { "create", "write" } /\ ret.st = "ok"
    /\ Len(file.hist) <= 11 * get_block_size

\* open(path) and read_to_end of the handle it returns
ReadBack(path) ==
    The({ IF o.st # "ok" THEN [st |-> o.st, buf |-> << >>]
          ELSE The({ [st |-> r.st, buf |-> r.buf]
               : r \in { call("read_to_end", << o.m, o.v >>) } })
    : o \in { call("open", << Cur, path >>) } })

\* C6: after create(p) and writes of n bytes in all (n at most 11 blocks),
\* opening p afresh and reading to the end yields exactly the n bytes
\* written, and nothing more.
C6_ReadBackWritten ==
    FreshHandle => ReadBack(file.path) = [st |-> "ok", buf |-> file.hist]

\* C7: after create(p) and writes of n bytes in all from cursor 0,
\* metadata(p) reports size n and a regular file; a fresh file has size 0.
C7_SizeIsWritten ==
    FreshHandle =>
      The({ /\ md.st = "ok"
            /\ md.v.size = Len(file.hist)
            /\ is_file(md.v.mode)
      : md \in { call("metadata", << Cur, file.path >>) } })

\* the rec_len values from `offset' on are positive multiples of 4 and end
\* exactly at the end of the block
RECURSIVE RecLenChain(_, _)
RecLenChain(content, offset) ==
    IF offset = get_block_size THEN TRUE
    ELSE IF offset > get_block_size THEN FALSE
    ELSE /\ LE16(content, offset + 4) > 0
         /\ LE16(content, offset + 4) % 4 = 0
         /\ RecLenChain(content, offset + LE16(content, offset + 4))

\* the logical indices 0 .. ceil(size / block_size) - 1 of an inode record
\* that i_block holds itself, as positions 1 .. 12 of i_block
DirectIndices(ino) ==
    { k \in 1 .. EXT2_NDIR_BLOCKS : k <= DataBlocksCount(InodeStruct_size(ino)) }

\* the block numbers at the logical indices 0 .. ceil(size / block_size) - 1
\* of an inode record (the direct ones), zero entries left out
BlocksInSize(ino) ==
    { ino.i_block[k] : k \in DirectIndices(ino) } \ {0}

CeilDiv(a, b) == (a + b - 1) \div b

\* C9: for every regular file, after any sequence of create and write calls,
\* ceil(i_blocks / (block_size / 512)) is the number of non-zero block
\* numbers at the logical indices 0 .. ceil(size / block_size) - 1.
C9_BlocksCounted ==
    (proc = "running" /\ "mkdir" \notin done) =>
      \A n \in InodeNums :
        is_file(it[n].i_mode) =>
          CeilDiv(it[n].i_blocks, get_block_size \div 512)
            = Cardinality({ k \in DirectIndices(it[n]) : it[n].i_block[k] # 0 })

\* C10: when a device read or write inside a block or inode allocation
\* fails, the allocation is given up and the bitmaps, the descriptors' free
\* counters and the superblock's free counters on the device are as before:
\* no partial step stays, no other group is tried and changed.
C10_FailedAllocationUndone ==
    [][ (nops' = nops + 1 /\ ret'.op \in AllocOps /\ ret'.v.hit) =>
          /\ ret'.st # "ok"
          /\ bm' = bm /\ gdt' = gdt /\ dsb' = dsb ]_vars

\* the blocks whose bit is clear in the block bitmap of their group
FreeBlocks ==
    { g * IMG.s_blocks_per_group + n :
        << g, n >> \in { x \in Groups \X (1 .. IMG.s_blocks_per_group) :
            BitOf(BitmapByte(bm[gdt[x[1] + 1].bg_block_bitmap], (x[2] - 1) \div 8),
                  (x[2] - 1) % 8) = 0 } }

FreshAllocation(op) == nops' = nops + 1 /\ ret'.op = op /\ ret'.st = "ok"

\* C11: on an image that holds the root directory only, the k-th inode
\* allocation (k from 0) returns first_ino + k and every block allocation
\* returns the lowest-numbered free block, also once group 0 is exhausted.
C11_FirstFit ==
    [][ /\ FreshAllocation("alloc_inode_num")
            => ret'.v.val = IMG.s_first_ino + Cardinality(Allocated("alloc_inode_num"))
        /\ FreshAllocation("alloc_block")
            => ret'.v.val = Min(FreeBlocks) ]_vars

\* the target stored in the symbolic link that `path' names, if it names one
LinkTarget(path) == call("read_link", << Cur, path >>)

\* path names a link to a second link whose target is path again
InLinkCycle(path) ==
    The({ /\ t1.st = "ok" /\ ~Lost(t1.m)
          /\ The({ t2.st = "ok" /\ ~Lost(t2.m) /\ t2.v = path
                   : t2 \in { IF t1.st = "ok" /\ ~Lost(t1.m) THEN LinkTarget(t1.v)
                              ELSE t1 } })
        : t1 \in { LinkTarget(path) } })

\* C12: resolving a path that runs into a cycle of symbolic links ends: the
\* call returns, and what it returns is the error InvalidInput.  (open and
\* read_dir write nothing, so the links are those the call has met.)
C12_CycleFails ==
    ( ret.op \in { "open", "read_dir" } /\ InLinkCycle(ret.path) )
        => ( proc = "running" /\ ret.st = "InvalidInput" )

\* path names a symbolic link whose target names something that is not a link
IsTerminalLink(path) ==
    The({ /\ t.st = "ok" /\ ~Lost(t.m)
          /\ The({ md.st = "ok" /\ ~Lost(md.m) /\ ~is_symlink(md.v.mode)
                   : md \in { IF t.st = "ok" /\ ~Lost(t.m)
                              THEN call("metadata", << Cur, t.v >>)
                              ELSE [st |-> "none"] } })
        : t \in { LinkTarget(path) } })

\* C13: for a path that names a symbolic link to a target t that is not a
\* link, metadata returns the Stat of t (its inode number), and read_link
\* returns the target string without following it.  (Neither call writes,
\* so the link is the one the call has met.)
C13_MetadataFollows ==
    ( ret.op \in { "metadata", "read_link" } /\ IsTerminalLink(ret.path) )
        => /\ proc = "running" /\ ret.st = "ok"
           /\ ret.op = "metadata"
                => ret.v.ino = call("metadata", << Cur, LinkTarget(ret.path).v >>).v.ino
           /\ ret.op = "read_link"
                => ret.v = LinkTarget(ret.path).v

\* the paths the operations are given that are not the root directory
NamedPaths == LinkPaths \cup LinkNewPaths

\* read_dir(dirname(path)) lists basename(path) with the inode number that
\* metadata(path) reports
ListedAs(path) ==
    The({ md.st = "ok" /\ ~Lost(md.m)
            => /\ rd.st = "ok" /\ ~Lost(rd.m)
               /\ base_file(path) \in DOMAIN rd.v
               /\ rd.v[base_file(path)] = md.v.ino
        : md \in { call("metadata", << Cur, path >>) },
          rd \in { call("read_dir", << Cur, base_dir(path) >>) } })

\* C14: every path other than the root whose metadata can be read is listed
\* by read_dir of its parent directory under its last component, with the
\* inode number that metadata reports; also for paths made by new_file and
\* mk_dir.
C14_ListingAgrees == proc = "running" => \A path \in NamedPaths : ListedAs(path)

\* a directory made through the link "/t" and a link listed in the root
C14_Witness ==
    /\ proc = "running"
    /\ ret.op = "mkdir" /\ ret.st = "ok" /\ ret.path = << SLASH, 116, SLASH, 98 >>
    /\ call("metadata", << Cur, ret.path >>).st = "ok"
    /\ call("metadata", << Cur, << SLASH, 113 >> >>).st = "ok"
    /\ C14_ListingAgrees

\* the path made of the first k components of path
Prefix(path, k) ==
    IF k = 0 THEN RootPath ELSE Join(SubSeq(Split(path), 1, k + 1))

Components(path) == Len(Split(path)) - 1

\* some component of path is not listed in the directory that the
\* components before it lead to
Missing(path) ==
    \E k \in 1 .. Components(path) :
        The({ /\ Split(path)[k + 1] # << >>
              /\ rd.st = "ok" /\ ~Lost(rd.m) /\ Split(path)[k + 1] \notin DOMAIN rd.v
            : rd \in { call("read_dir", << Cur, Prefix(path, k - 1) >>) } })

ReadsPath == { "read_dir", "open", "metadata", "read_link" }

\* C19: an operation that resolves a path with a component that does not
\* exist fails with NotFound; new_file and mk_dir whose parent directory has
\* such a component fail with NotFound and leave the device as it was.
C19_MissingNotFound ==
    [][ nops' = nops + 1 =>
          /\ ( ret'.op \in ReadsPath /\ Missing(ret'.path) )
                => ( proc' = "running" /\ ret'.st = "NotFound" )
          /\ ( ret'.op \in { "create", "mkdir" } /\ Missing(base_dir(ret'.path)) )
                => ( proc' = "running" /\ ret'.st = "NotFound" /\ device' = device )
      ]_nops

\* mk_dir("/n/a") has failed on a device that an earlier call has changed
C19_Witness ==
    /\ proc = "running" /\ done # {}
    /\ ret.op = "mkdir" /\ ret.st = "NotFound"
    /\ Missing(base_dir(ret.path))

\* a component of path before the last names something that is neither a
\* directory nor a link
ThroughNonDirectory(path) ==
    \E k \in 1 .. Components(path) - 1 :
        The({ md.st = "ok" /\ ~Lost(md.m) /\ ~is_dir(md.v.mode) /\ ~is_symlink(md.v.mode)
            : md \in { call("metadata", << Cur, Prefix(path, k) >>) } })

\* C20: resolving a path in which a component before the last names an
\* existing file that is not a directory fails with InvalidInput.  (The
\* calls looked at write nothing.)
C20_NotADirectory ==
    ( ret.op \in ReadsPath /\ ThroughNonDirectory(ret.path) )
        => ( proc = "running" /\ ret.st = "InvalidInput" )

\* the byte at offset o of the file of the handle: the byte of the block
\* that the inode records for o, zero where it records none
FileByte(o) ==
    The({ IF b = 0 THEN 0 ELSE ByteAt(blk[b], o % get_block_size)
        : b \in { file.inode.ext2_inode.i_block[(o \div get_block_size) + 1] } })

\* C15: read into a buffer returns 0, with the buffer zeroed and the cursor
\* where it was, exactly when the cursor is at or behind the size; otherwise
\* it returns n with 0 < n <= min(len(buf), size - cursor), n not passing the
\* end of the cursor's block, the buffer starts with the n bytes of the file
\* from the cursor on, and the cursor has advanced by n.  It never fails.
C15_Read ==
    [][ ( nops' = nops + 1 /\ ret'.op = "read" ) =>
          /\ proc' = "running" /\ ret'.st = "ok"
          /\ IF file.pos >= file.inode.size
             THEN /\ ret'.v.n = 0
                  /\ \A k \in DOMAIN ret'.v.buf : ret'.v.buf[k] = 0
                  /\ file'.pos = file.pos
             ELSE /\ ret'.v.n > 0
                  /\ ret'.v.n <= Len(ret'.v.buf)
                  /\ ret'.v.n <= file.inode.size - file.pos
                  /\ ret'.v.n <= get_block_size - (file.pos % get_block_size)
                  /\ \A k \in 1 .. ret'.v.n : ret'.v.buf[k] = FileByte(file.pos + k - 1)
                  /\ file'.pos = file.pos + ret'.v.n
      ]_nops

\* C16: a write with the cursor at or behind EXT2_NDIR_BLOCKS * block_size
\* returns the error InvalidInput to its caller and leaves the inode, the
\* bitmaps and the counters as they were.
C16_WriteBehindDirect ==
    [][ ( /\ nops' = nops + 1 /\ ret'.op = "write"
          /\ file.pos >= EXT2_NDIR_BLOCKS * get_block_size )
        => /\ proc' = "running" /\ ret'.st = "InvalidInput"
           /\ device' = device /\ super_block' = super_block
      ]_nops

\* the direct slot of the file offset o, counted from 1
SlotOf(o) == (o \div get_block_size) + 1

\* C17: after seek(o) with o behind the size of the file and inside the
\* direct blocks, write(buf) succeeds, the slot o / block_size of the inode
\* records a block that holds buf at o % block_size, and the slots of the
\* blocks skipped stay without a block: one block at most is allocated.
C17_WriteAfterSeek ==
    [][ ( /\ nops' = nops + 1 /\ ret'.op = "write" /\ ret.op = "seek"
          /\ file.pos > file.inode.size
          /\ file.pos < EXT2_NDIR_BLOCKS * get_block_size )
        => /\ proc' = "running" /\ ret'.st = "ok"
           /\ it'[file.inode.inode_num].i_block[SlotOf(file.pos)] \in DOMAIN blk'
           /\ \A k \in 1 .. ret'.v :
                 ByteAt(blk'[it'[file.inode.inode_num].i_block[SlotOf(file.pos)]],
                        (file.pos % get_block_size) + k - 1)
                   = file'.hist[Len(file.hist) + k]
           /\ \A slot \in 1 .. SlotOf(file.pos) - 1 :
                 it'[file.inode.inode_num].i_block[slot]
                   = it[file.inode.inode_num].i_block[slot]
           /\ super_block'.s_free_blocks_count >= super_block.s_free_blocks_count - 1
      ]_nops

\* C18: mount succeeds exactly when the magic of the superblock on the
\* device is 0xEF53, whatever the block size; with any other magic it fails
\* with InvalidData; either way nothing is written to the device.  (A mount
\* during which the device fails is left out.)
C18_MountByMagic ==
    [][ ( nops' = nops + 1 /\ ret'.op = "mount" /\ ~ret'.v.hit )
        => /\ dsb.s_magic = MAGIC => ( proc' = "running" /\ ret'.st = "ok" )
           /\ dsb.s_magic # MAGIC => ( proc' = "unmounted" /\ ret'.st = "InvalidData" )
           /\ device' = device
      ]_vars


\* the file type that the mode of the inode at path carries: the high four
\* bits of i_mode (4 a directory, 8 a regular file, 10 a symbolic link, 1 a
\* fifo, 2 a character device, 6 a block device, 12 a socket)
FileKind(path) ==
    The({ IF md.st = "ok" /\ ~Lost(md.m) THEN md.v.mode \div 4096 ELSE 0
        : md \in { call("metadata", << Cur, path >>) } })

\* C21: an operation applied to a file of the wrong kind is refused and
\* writes nothing: read_dir of a file that is not a directory and open of a
\* directory fail with InvalidInput, read_link of a file that is not a
\* symbolic link fails with InvalidData; open of a file that is not a
\* directory (regular file, device, socket, fifo) succeeds.
C21_WrongKind ==
    [][ ( nops' = nops + 1 /\ FileKind(ret'.path) \notin { 0, 10 } ) =>
          /\ ( ret'.op = "read_dir" /\ FileKind(ret'.path) # 4 )
                => ( proc' = "running" /\ ret'.st = "InvalidInput" /\ device' = device )
          /\ ( ret'.op = "open" /\ FileKind(ret'.path) = 4 )
                => ( proc' = "running" /\ ret'.st = "InvalidInput" /\ device' = device )
          /\ ret'.op = "read_link"
                => ( proc' = "running" /\ ret'.st = "InvalidData" /\ device' = device )
          /\ ( ret'.op = "open" /\ FileKind(ret'.path) # 4 )
                => ( proc' = "running" /\ ret'.st = "ok" )
      ]_nops


\* C22: a device read that fails while an operation reads a data block of a
\* directory or of a file is returned to the caller as an error: the
\* operation does not report success and does not report NotFound.
C22_ReadFailureReported ==
    ( ret.op \in FaultCalls \cup { "read" } /\ ret.v.rfail # << >> )
        => ( proc = "running" /\ ret.st \notin { "ok", "NotFound" } )

\* the place of a write in the order inode record, directory block, bitmap,
\* group descriptor, superblock
WriteRank(tag) ==
    CASE tag[1] = "inode" -> 1
      [] tag[1] = "block" -> 2
      [] tag[1] = "bitmap" -> 3
      [] tag[1] = "group_desc" -> 4
      [] tag[1] = "superblock" -> 5

\* C23: the writes of one successful new_file come in the order: the new
\* inode record, the parent's directory block, the bitmaps, the group
\* descriptor, the superblock; no bitmap, descriptor or superblock write
\* comes before the write of the inode record.
C23_WriteOrder ==
    ( ret.op = "new_file" /\ ret.st = "ok" /\ proc = "running" )
        => /\ \E i \in DOMAIN ret.v.wlog : WriteRank(ret.v.wlog[i]) = 1
           /\ \A i, j \in DOMAIN ret.v.wlog :
                  i < j => WriteRank(ret.v.wlog[i]) <= WriteRank(ret.v.wlog[j])


\* the records of a directory block from offset on include one that names
\* `name' with an inode
RECURSIVE HasRecord(_, _, _)
HasRecord(content, offset, name) ==
    /\ offset + DIR_ENTRY_SIZE <= get_block_size
    /\ \/ /\ LE32(content, offset) # 0
          /\ ByteAt(content, offset + 6) = Len(name)
          /\ Slice(content, offset + DIR_ENTRY_SIZE, Len(name)) = name
       \/ /\ LE16(content, offset + 4) > 0
          /\ HasRecord(content, offset + LE16(content, offset + 4), name)

CountersAgree == \A g \in Groups : BlockBitmapAgrees(g) /\ InodeBitmapAgrees(g)

\* C24: when a device write of new_file or mk_dir fails, the counters of the
\* descriptors still match the bitmaps afterwards, and the block of the
\* parent directory is either as it was before the call or holds the whole
\* new record in a chain of rec_len values that ends at the block's end.
C24_FailedCreateConsistent ==
    [][ ( /\ nops' = nops + 1
          /\ ret'.op \in { "new_file", "mk_dir" } /\ ret'.v.wfail # << >>
          /\ ret'.st # "ok"
          /\ proc' # "unmodelled"
          /\ CountersAgree /\ RecLenChain(blk[ROOT_BLOCK], 0) )
        => /\ CountersAgree'
           /\ \/ blk'[ROOT_BLOCK] = blk[ROOT_BLOCK]
              \/ /\ RecLenChain(blk'[ROOT_BLOCK], 0)
                 /\ HasRecord(blk'[ROOT_BLOCK], 0, base_file(ret'.path))
      ]_nops


\* the block number in slot s of the pointer block b on the device
SlotValue(b, s) == LE32(blk[b], 4 * s)

\* the block number at logical index i of an inode record, by the layout of
\* the block map: 12 direct entries, then P entries through i_block[12],
\* P * P through i_block[13], the rest through i_block[14]
BlockAtIndex(ino, i) ==
    LET P == get_block_size \div 4
        j == i - 12 - P - P * P
    IN  IF i < 12 THEN ino.i_block[i + 1]
        ELSE IF i < 12 + P THEN SlotValue(ino.i_block[13], i - 12)
        ELSE IF i < 12 + P + P * P
             THEN SlotValue(SlotValue(ino.i_block[14], (i - 12 - P) \div P),
                            (i - 12 - P) % P)
        ELSE SlotValue(SlotValue(SlotValue(ino.i_block[15], j \div (P * P)),
                                 (j % (P * P)) \div P),
                       j % P)

C26_StopsAtZero ==
    ( proc = "running" /\ file.open )
        => \A k \in DOMAIN file.blocks : file.blocks[k] # 0


\* the records of a directory block from offset on include an unused one
\* (inode number 0) that bears `name'
RECURSIVE HasUnusedRecord(_, _, _)
HasUnusedRecord(content, offset, name) ==
    /\ offset + DIR_ENTRY_SIZE <= get_block_size
    /\ \/ /\ LE32(content, offset) = 0
          /\ ByteAt(content, offset + 6) = Len(name)
          /\ Slice(content, offset + DIR_ENTRY_SIZE, Len(name)) = name
       \/ /\ LE16(content, offset + 4) > 0
          /\ HasUnusedRecord(content, offset + LE16(content, offset + 4), name)

\* path names, in the root directory, an unused record and no record in use
NamesUnused(path) ==
    /\ Components(path) = 1
    /\ HasUnusedRecord(blk[ROOT_BLOCK], 0, base_file(path))
    /\ ~HasRecord(blk[ROOT_BLOCK], 0, base_file(path))

\* C27: the iteration over a directory skips the records whose inode number
\* is 0: read_dir returns without them, and a lookup does not match them.
C27_SkipsUnused ==
    /\ ( ret.op = "read_dir" /\ ret.path = RootPath )
          => /\ proc = "running" /\ ret.st = "ok"
             /\ \A name \in DOMAIN ret.v : ret.v[name] # 0
    /\ ( ret.op \in { "open", "metadata" } /\ NamesUnused(ret.path) )
          => ( proc = "running" /\ ret.st = "NotFound" )


\* every record of a directory block from offset on is as long as its
\* header and name need, and the records end at the end of the block
RECURSIVE NoSlack(_, _)
NoSlack(content, offset) ==
    \/ offset = get_block_size
    \/ /\ offset + DIR_ENTRY_SIZE <= get_block_size
       /\ LE32(content, offset) # 0
       /\ LE16(content, offset + 4) = align_up(ByteAt(content, offset + 6) + DIR_ENTRY_SIZE, 4)
       /\ NoSlack(content, offset + LE16(content, offset + 4))

\* the data blocks that the block map of the root directory names
RootBlocks == { it[EXT2_ROOT_INO].i_block[k] : k \in 1 .. EXT2_NDIR_BLOCKS } \ { 0 }

\* C28: when no block of the parent directory has a record with slack, a
\* successful new_file or mk_dir has put a new block into the block map of
\* the parent and the new record into that block, and has written the
\* record into no block outside the directory (block 0 is as it was).
C28_NewDirectoryBlock ==
    [][ ( /\ nops' = nops + 1
          /\ ret'.op \in { "create", "mkdir" } /\ ret'.st = "ok" /\ proc' = "running"
          /\ base_dir(ret'.path) = RootPath
          /\ \A b \in RootBlocks : NoSlack(blk[b], 0) )
        => /\ \E b \in RootBlocks' \ RootBlocks :
                 HasRecord(blk'[b], 0, base_file(ret'.path))
           /\ blk'[0] = blk[0]
      ]_nops


\* the one-based ordinal of the lowest clear bit of the bitmap in block b
\* (0 when the bitmap of the group is full)
LowestClear(b, bits) ==
    LET clear == { n \in 1 .. bits : BitOf(BitmapByte(bm[b], (n - 1) \div 8), (n - 1) % 8) = 0 }
    IN  IF clear = {} THEN 0 ELSE Min(clear)

InodeAllocated ==
    /\ nops' = nops + 1
    /\ ret'.op \in { "alloc_inode_num", "alloc_inode_num_group" } /\ ret'.st = "ok"

\* C29: an inode allocation never returns one of the reserved inode numbers
\* 1 .. 10, and when it draws from a group other than group 0 it takes the
\* lowest clear bit of that group's bitmap, the first eight bits included.
C29_ReservedInodes ==
    [][ InodeAllocated =>
          /\ ret'.v.val \notin 1 .. 10
          /\ ret'.v.g # 0 =>
               BitSetByStep(gdt[ret'.v.g + 1].bg_inode_bitmap,
                            LowestClear(gdt[ret'.v.g + 1].bg_inode_bitmap,
                                        IMG.s_inodes_per_group)) ]_vars


\* the bitmap of group g that op allocates from has a clear bit
HasClearBit(op, g) ==
    LowestClear(BitmapBlockOf(op, g),
                IF op = "alloc_block" THEN IMG.s_blocks_per_group
                ELSE IMG.s_inodes_per_group) # 0

\* C30: alloc_block and alloc_inode_num, on a device that does not fail, take
\* the slot from the lowest-numbered group whose bitmap has a clear bit and
\* leave the bitmaps and descriptors of the groups after it unchanged; they
\* report that there is no slot only when the bitmap of every group is full.
C30_LowestGroup ==
    [][ ( /\ nops' = nops + 1
          /\ ret'.op \in { "alloc_block", "alloc_inode_num" } /\ ~ret'.v.hit )
        => /\ proc' = "running"
           /\ ret'.st = "ok" =>
                /\ HasClearBit(ret'.op, ret'.v.g)
                /\ \A g \in Groups : g < ret'.v.g => ~HasClearBit(ret'.op, g)
                /\ \A g \in Groups : g > ret'.v.g =>
                      /\ gdt'[g + 1] = gdt[g + 1]
                      /\ bm'[gdt[g + 1].bg_block_bitmap] = bm[gdt[g + 1].bg_block_bitmap]
                      /\ bm'[gdt[g + 1].bg_inode_bitmap] = bm[gdt[g + 1].bg_inode_bitmap]
           /\ ret'.st = "none" => \A g \in Groups : ~HasClearBit(ret'.op, g)
      ]_vars


\* the letter for a permission bit: the letter when the bit is set, "-"
\* when it is not
PermLetter(mode, bit, letter) == IF (mode \div bit) % 2 = 1 THEN letter ELSE "-"

\* the nine permission letters of a mode: read, write, execute of the user
\* (0o400, 0o200, 0o100), of the group and of the others
PermLetters(mode) ==
    << PermLetter(mode, 256, "r"), PermLetter(mode, 128, "w"), PermLetter(mode, 64, "x"),
       PermLetter(mode, 32, "r"), PermLetter(mode, 16, "w"), PermLetter(mode, 8, "x"),
       PermLetter(mode, 4, "r"), PermLetter(mode, 2, "w"), PermLetter(mode, 1, "x") >>

\* C31: the display of a mode shows, after the file type and a blank, for
\* user, group and other in this order "r" exactly when the read bit of the
\* class is set, "w" for its write bit and "x" for its execute bit, "-"
\* otherwise (0o644 shows rw-r--r--).
C31_DisplayPermissions ==
    ret.op = "display"
        => /\ ret.st = "ok"
           /\ Len(ret.v.text) = 11
           /\ SubSeq(ret.v.text, 3, 11) = PermLetters(ret.v.mode)


\* C39: for a mode whose type field (mode & 0xF000) is one of the seven
\* file types, is_dir, is_file and is_symlink are true exactly when the type
\* field is DIRECTORY, FILE and SYMLINK (so at most one of them is true).
C39_TypeTests ==
    ret.op = "type_tests"
        => /\ ret.v.is_dir = ( (ret.v.mode \div 4096) * 4096 = MODE_DIRECTORY )
           /\ ret.v.is_file = ( (ret.v.mode \div 4096) * 4096 = MODE_FILE )
           /\ ret.v.is_symlink = ( (ret.v.mode \div 4096) * 4096 = MODE_SYMLINK )


\* the bit of number n (a block or an inode, by op) in the bitmap of the
\* group that n belongs to
BitOfNumber(op, n) ==
    LET per == IF op = "alloc_block" THEN IMG.s_blocks_per_group ELSE IMG.s_inodes_per_group
        g   == (n - 1) \div per
        k   == (n - 1) % per
    IN  IF n < 1 \/ g \notin Groups THEN 1
        ELSE BitOf(BitmapByte(bm[BitmapBlockOf(op, g)], k \div 8), k % 8)

\* C32: in a sequence of successful allocations no block number and no
\* inode number is handed out twice, and none is handed out whose bit was
\* set in the bitmap of the group it belongs to, also once group 0 has no
\* free slot left.
C32_NoDoubleAllocation ==
    [][ \A op \in { "alloc_block", "alloc_inode_num" } :
          FreshAllocation(op) =>
            /\ \A d \in Allocated(op) : d[3] # ret'.v.val
            /\ BitOfNumber(op, ret'.v.val) = 0 ]_vars


\* C33: an inode allocation drawn from group g writes the bitmap into the
\* inode-bitmap block of group g and changes the descriptor of group g only:
\* the inode bitmaps and the descriptors of the other groups are as before.
C33_OwnGroupOnly ==
    [][ ( InodeAllocated /\ ~ret'.v.hit ) =>
          /\ bm'[gdt[ret'.v.g + 1].bg_inode_bitmap] # bm[gdt[ret'.v.g + 1].bg_inode_bitmap]
          /\ \A g \in Groups \ { ret'.v.g } :
                /\ bm'[gdt[g + 1].bg_inode_bitmap] = bm[gdt[g + 1].bg_inode_bitmap]
                /\ gdt'[g + 1] = gdt[g + 1] ]_vars


\* read_dir("/") returns in the current state
RootListed ==
    The({ r.st = "ok" /\ ~Lost(r.m) : r \in { call("read_dir", << Cur, RootPath >>) } })

\* what read_dir("/") returns in the current state: name -> inode number
RootEntries == The({ r.v : r \in { call("read_dir", << Cur, RootPath >>) } })

\* a create or mkdir in the root directory has just returned Ok
RootEntryAdded ==
    /\ nops' = nops + 1
    /\ ret'.op \in { "create", "mkdir" } /\ ret'.st = "ok" /\ proc' = "running"
    /\ base_dir(ret'.path) = RootPath

\* C34: a successful create or mkdir in a directory preserves every entry
\* the directory had: each name read_dir returned before the call is
\* returned after it with the same inode number, whichever record of the
\* block carried the slack.
C34_EntriesPreserved ==
    [][ ( RootEntryAdded /\ RootListed ) =>
          /\ RootListed'
          /\ \A name \in DOMAIN RootEntries :
                /\ name \in DOMAIN RootEntries'
                /\ RootEntries'[name] = RootEntries[name] ]_nops


\* the records of a directory block from offset on include one that names
\* `name' with an inode, whose header and name lie inside the block and
\* whose rec_len is at least the packed size of header and name
RECURSIVE HasFittingRecord(_, _, _)
HasFittingRecord(content, offset, name) ==
    /\ offset + DIR_ENTRY_SIZE <= get_block_size
    /\ \/ /\ LE32(content, offset) # 0
          /\ ByteAt(content, offset + 6) = Len(name)
          /\ offset + DIR_ENTRY_SIZE + Len(name) <= get_block_size
          /\ Slice(content, offset + DIR_ENTRY_SIZE, Len(name)) = name
          /\ LE16(content, offset + 4) >= align_up(DIR_ENTRY_SIZE + Len(name), 4)
       \/ /\ LE16(content, offset + 4) > 0
          /\ HasFittingRecord(content, offset + LE16(content, offset + 4), name)

\* the data blocks that the block maps of the files other than the root
\* directory name
FileBlocks ==
    { it[n].i_block[k] : n \in { i \in InodeNums : i # EXT2_ROOT_INO /\ it[i].i_links_count > 0 },
                         k \in 1 .. EXT2_NDIR_BLOCKS } \ { 0 }

\* a create or mkdir in the root directory has just been called, the path
\* being new and a block of the directory having a record with slack
RootEntryCalled ==
    /\ nops' = nops + 1
    /\ ret'.op \in { "create", "mkdir" }
    /\ base_dir(ret'.path) = RootPath
    /\ ~PathExists(ret'.path)
    /\ \E b \in RootBlocks : ~NoSlack(blk[b], 0)

\* C35: the record that create or mkdir splices into a directory block fits:
\* its header and name lie inside the block and its rec_len is at least
\* align_up(8 + name_len, 4); and the call, successful or not, writes no
\* byte past the end of the directory block (the blocks of the other files
\* are as before).
C35_RecordFits ==
    [][ RootEntryCalled =>
          /\ \A b \in FileBlocks : blk'[b] = blk[b]
          /\ ( ret'.st = "ok" /\ proc' = "running" ) =>
                \E b \in RootBlocks' : HasFittingRecord(blk'[b], 0, base_file(ret'.path))
      ]_nops


\* every bit of the bitmaps that op allocates from is set, in every group
NoneFree(op) == \A g \in Groups : ~HasClearBit(op, g)

\* the step is a call that needs what the filesystem has no more of: a
\* create or mkdir of a new path in the root directory when no inode or no
\* block is free, or a write whose cursor is in a slot of the block map
\* that names no block when no block is free
AllocationImpossible ==
    /\ nops' = nops + 1
    /\ \/ /\ ret'.op \in { "create", "mkdir" }
          /\ base_dir(ret'.path) = RootPath
          /\ ~PathExists(ret'.path)
          /\ NoneFree("alloc_inode_num") \/ NoneFree("alloc_block")
       \/ /\ ret'.op = "write"
          /\ file.open
          /\ file.pos \div get_block_size < EXT2_NDIR_BLOCKS
          /\ file.inode.ext2_inode.i_block[(file.pos \div get_block_size) + 1] = 0
          /\ NoneFree("alloc_block")

\* C36: when the filesystem has no free inode or no free block, create,
\* mkdir and a write that needs a block return an error to the caller: the
\* call does not abort and the device is as it was before the call.
C36_ExhaustionReported ==
    [][ AllocationImpossible =>
          /\ proc' = "running"
          /\ ret'.st \notin { "ok", "abort" }
          /\ device' = device ]_nops


\* the blocks that the direct slots of the opened file's inode name, after
\* the step, for the n file offsets from the cursor on
WrittenSlotBlocks(n) ==
    { it'[file.inode.inode_num].i_block[SlotOf(o)] :
        o \in { x \in file.pos .. (file.pos + n - 1) : SlotOf(x) <= EXT2_NDIR_BLOCKS } }

\* C37: every byte that write sends to the device lands in a block of the
\* file, the block that the direct slot of its file offset names: a piece
\* written at a non-zero offset in a block does not run on into the block
\* that follows it on the device.
C37_WriteStaysInFile ==
    [][ ( nops' = nops + 1 /\ ret'.op = "write" /\ file.open ) =>
          \A b \in DOMAIN blk :
              blk'[b] # blk[b] => b \in WrittenSlotBlocks(3) ]_nops


\* the bytes of the file of the handle from the cursor to the end of the file
BytesFromCursor ==
    IF file.pos >= file.inode.size THEN << >>
    ELSE [i \in 1 .. (file.inode.size - file.pos) |-> FileByte(file.pos + i - 1)]

\* C38: read_to_end on a file handle terminates for every file size and
\* every position of the cursor, also a cursor behind the start or at the
\* end of the file, and returns the bytes from the cursor to the end of the
\* file.
C38_ReadToEndTerminates ==
    [][ ( nops' = nops + 1 /\ ret'.op = "read_to_end" /\ file.open ) =>
          /\ proc' = "running"
          /\ ret'.st = "ok"
          /\ ret'.v = BytesFromCursor ]_nops


\* C40: scanning a directory ends and stays inside the block whatever the
\* block holds: read_dir and find_last_dir_entry return, with an error or
\* after an early stop, and do not loop for ever nor abort on an access
\* behind the block; and mk_dir, which scans the block just allocated for
\* the new directory, does not loop for ever.
C40_ScanTerminates ==
    /\ ret.op \in { "read_dir", "find_last_dir_entry" } => proc = "running"
    /\ ret.op = "mk_dir" => proc # "hung"

=============================================================================
